---- MODULE Spec2Model ----
(***************************************************************************)
(* Model of the Claude export processor: the record store (BaseRepository  *)
(* over lowdb files), the   pipeline AppController.run (extract, store users  *)
(* and projects, sync conversations, render documents) and the store        *)
(* metadata.                                                                *)
(*                                                                          *)
(* A JSON object is a TLA+ function from field names to values; a field the *)
(* object does not have is a name outside its DOMAIN.  JSON null is Null.   *)
(***************************************************************************)
EXTENDS Integers, Sequences, FiniteSets, TLC

\* ------------------------------------------------------------- bounds
\* Longest conversations.json array of an archive.
MaxBatch == 2
\* Pipeline runs in one behaviour of SpecRerun.
MaxRuns == 2
\* Last second of the wall clock.
MaxClock == 2
\* I/O faults (a failing store write, a failing document write) the environment
\* injects into one run.
MaxFaults == 1
\* Records the repository operations of SpecRepo may hold over all collections.
MaxStored == 2

\* ------------------------------------------------------ JSON values
Null == [null |-> TRUE]

IsNull(x) == "null" \in DOMAIN x

Has(x, f) == f \in DOMAIN x

\* a.f !== b.f for a field whose values, when present, are not falsy
Differs(a, b, f) ==
  \/ Has(a, f) # Has(b, f)
  \/ Has(a, f) /\ Has(b, f) /\ a[f] # b[f]

\* Mutant: the updates replace the record.
SpreadReplaces(e, u) == u

\* { ...e, ...u }
Spread(e, u) ==
  [f \in DOMAIN e \cup DOMAIN u |-> IF f \in DOMAIN u THEN u[f] ELSE e[f]]

\* The conversations an archive may hold.  body "bad" is content that makes
\* MarkdownGenerator.generate throw (no name and chat_messages[0] null).
A1 == [uuid |-> "a", updated_at |-> 1, created_at |-> 1, body |-> "ok"]
A2 == [uuid |-> "a", updated_at |-> 2, created_at |-> 1, body |-> "ok"]
B1 == [uuid |-> "b", updated_at |-> 1, body |-> "ok"]
B2 == [uuid |-> "b", updated_at |-> 2, body |-> "bad"]
NoUuid == [updated_at |-> 2, body |-> "ok"]

ConvItems == {A1, A2, B1, B2, NoUuid, Null}

U1 == [uuid |-> "u1"]
P1 == [uuid |-> "p1"]

SeqsUpTo(S, n) == UNION {[1..m -> S] : m \in 0..n}

\* kind "ok": a readable zip with a conversations.json entry; "missing": a
\* readable zip without one; "corrupt": a file AdmZip cannot read; "nonArray":
\* a readable zip whose conversations.json holds a value that is not an array.
Archives ==
  {[kind |-> "ok", users |-> p.users, projects |-> p.projects, conversations |-> c] :
     p \in {[users |-> <<>>, projects |-> <<>>], [users |-> <<U1>>, projects |-> <<P1>>]},
     c \in SeqsUpTo(ConvItems, MaxBatch)}
  \cup
  [kind : {"missing", "corrupt", "nonArray"}, users : {<<U1>>}, projects : {<<>>},
   conversations : {<<>>}]

NoArchive ==
  [kind |-> "corrupt", users |-> <<>>, projects |-> <<>>, conversations |-> <<>>]

NoData == [users |-> <<>>, projects |-> <<>>, conversations |-> <<>>]

Uuids == {"a", "b"}

Collections == {"users", "projects", "conversations"}

EmptyStore == [c \in Collections |-> <<>>]

DefaultMeta ==
  [lastProcessed |-> 0,
   stats |-> [totalConversations |-> 0, totalUsers |-> 0, totalProjects |-> 0]]

\* ------------------------------------------------------------ state
VARIABLES
  stage,        \* where run() is: Idle, Extract, StoreUsersProjects, ...
  error,        \* the error run() rethrew ("none" when it did not)
  archive,      \* the archive of the current run
  force,        \* options.force of the current run
  extracted,    \* what zipProcessor.process returned
  dbReady,      \* db.init() has read the store files
  idx,          \* position of the current loop
  sorted,       \* sortedConversations of storeData
  processedCount, \* storeData's counters
  skippedCount,
  data,         \* db.data of the three lowdb instances (in memory)
  disk,         \* the three collection files
  meta,         \* metaDb.data
  written,      \* the documents this run wrote to the output directory
  clock,        \* wall clock, in seconds
  runs,         \* runs started
  faults,       \* I/O faults injected into this run
  outcome,      \* per uuid, what the rendering phase of this run did
  changed,      \* uuids this run re-ingested over a processed record with another updated_at
  ioFaults,     \* the I/O faults of this run: "store", "file"
  rerun,        \* this run repeats the previous run's archive and options
  first,        \* the collection files after the previous run (while rerun)
  lastOp,       \* SpecRepo: the last repository operation
  zip,          \* SpecZip: ZipProcessor.process, step by step
  fn,           \* a function of the program called on its own: call and result
  ext,          \* the browser extension: background listener and IndexedDB
  incremental   \* this.incremental: the --incremental option of the run

vars ==
  <<stage, error, archive, force, extracted, dbReady, idx, sorted,
    processedCount, skippedCount, data, disk, meta, written, clock, runs,
    faults, outcome, changed, ioFaults, rerun, first, lastOp, zip,
                 fn, ext, incremental>>

\* ------------------------------------------------- BaseRepository
Undefined == "undefined"

\* item.uuid
UuidOf(item) == IF Has(item, "uuid") THEN item.uuid ELSE Undefined

\* findIndex((item) => item.uuid === uuid); 0 stands for -1
FindIndex(coll, uuid) ==
  IF \E i \in 1..Len(coll) : UuidOf(coll[i]) = uuid
  THEN CHOOSE i \in 1..Len(coll) :
         /\ UuidOf(coll[i]) = uuid
         /\ \A j \in 1..(i - 1) : UuidOf(coll[j]) # uuid
  ELSE 0

FindByUuid(coll, uuid) ==
  IF FindIndex(coll, uuid) = 0 THEN Null ELSE coll[FindIndex(coll, uuid)]

Count(coll) == Len(coll)

Exists(coll, uuid) == \E i \in 1..Len(coll) : UuidOf(coll[i]) = uuid

\* The in-memory effect of insert, update, delete and upsert on db.data[collection].

UpdateMem(coll, uuid, updates) ==
  IF FindIndex(coll, uuid) = 0
  THEN coll
  ELSE [coll EXCEPT ![FindIndex(coll, uuid)] = Spread(@, updates)]

DeleteMem(coll, uuid) ==
  IF FindIndex(coll, uuid) = 0
  THEN coll
  ELSE [i \in 1..(Len(coll) - 1) |->
          IF i < FindIndex(coll, uuid) THEN coll[i] ELSE coll[i + 1]]

\* Mutant: insert that stores the record as processed.
InsertMarksProcessed(coll, item) ==
  Append(coll, Spread(item, [processed |-> TRUE]))

InsertMem(coll, item) == Append(coll, item)

\* Mutant: upsert that never looks for the record.
UpsertAlwaysInserts(coll, item) == InsertMem(coll, item)

UpsertMem(coll, item) ==
  IF Exists(coll, UuidOf(item))
  THEN UpdateMem(coll, UuidOf(item), item)
  ELSE InsertMem(coll, item)

\* Mutant: the collection is changed in memory and the write is put off.
WriteDeferred(c, coll, ok) ==
  /\ data' = [data EXCEPT ![c] = coll]
  /\ disk' = disk
  /\ faults' = faults

\* db.data[c] = coll; await db.write(): the whole collection replaces its file,
\* or the write throws and the file stays as it was.
WriteThrough(c, coll, ok) ==
  /\ data' = [data EXCEPT ![c] = coll]
  /\ IF ok
     THEN disk' = [disk EXCEPT ![c] = coll] /\ faults' = faults
     ELSE disk' = disk /\ faults' = faults + 1

CanFail(ok) == ok \/ faults < MaxFaults

\* ---------------------------------------------------- AppController
\* new Date(c.updated_at || 0), as a number
SortKey(c) == IF Has(c, "updated_at") THEN c.updated_at ELSE 0

\* Array.prototype.sort is stable: insertion of x after every element whose key
\* is not smaller.
RECURSIVE InsertSorted(_, _)
InsertSorted(seq, x) ==
  IF seq = <<>> THEN <<x>>
  ELSE IF SortKey(Head(seq)) >= SortKey(x)
       THEN <<Head(seq)>> \o InsertSorted(Tail(seq), x)
       ELSE <<x>> \o seq

RECURSIVE SortNewestFirst(_)
SortNewestFirst(seq) ==
  IF seq = <<>> THEN <<>>
  ELSE InsertSorted(SortNewestFirst(SubSeq(seq, 1, Len(seq) - 1)), seq[Len(seq)])

\* The comparator reads a.updated_at and b.updated_at: it is called as soon as the
\* array has two elements, and throws a TypeError on a null element.
SortThrows(seq) == Len(seq) >= 2 /\ \E i \in 1..Len(seq) : IsNull(seq[i])

\* !conversation || !conversation.uuid
Invalid(conversation) == IsNull(conversation) \/ ~Has(conversation, "uuid")

\* item.processed and item.markdownPath as conditions: a boolean, and a path
\* that is never the empty string
Processed(item) == ~IsNull(item) /\ Has(item, "processed") /\ item.processed

HasMarkdownPath(item) == ~IsNull(item) /\ Has(item, "markdownPath")

\* Mutant: the decision without the updated_at comparison.
ShouldProcessIgnoresStamp(f, existing, conversation) ==
  \/ f
  \/ IsNull(existing)
  \/ ~Processed(existing)

ShouldProcess(f, existing, conversation) ==
  \/ f
  \/ IsNull(existing)
  \/ ~Processed(existing)
  \/ Differs(existing, conversation, "updated_at")

\* Mutant: a skip test that does not look at force.
RenderDueIgnoresForce(f, conversation) ==
  ~(Processed(conversation) /\ HasMarkdownPath(conversation))

\* The rendering phase's skip test, negated
RenderDue(f, conversation) ==
  ~(~f /\ Processed(conversation) /\ HasMarkdownPath(conversation))

\* generate() throws on this conversation
GenerateThrows(conversation) ==
  Has(conversation, "body") /\ conversation.body = "bad"

\* Texts are sequences of characters; a uuid is one token of its own.
UpperCase ==
  <<"A", "B", "C", "D", "E", "F", "G", "H", "I", "J", "K", "L", "M", "N", "O",
    "P", "Q", "R", "S", "T", "U", "V", "W", "X", "Y", "Z">>

LowerCase ==
  <<"a", "b", "c", "d", "e", "f", "g", "h", "i", "j", "k", "l", "m", "n", "o",
    "p", "q", "r", "s", "t", "u", "v", "w", "x", "y", "z">>

Digits == {"0", "1", "2", "3", "4", "5", "6", "7", "8", "9"}

\* The characters of the class a-z0-9
Alnum == {LowerCase[i] : i \in 1..Len(LowerCase)} \cup Digits

\* toLowerCase()
ToLowerCase(text) ==
  [k \in 1..Len(text) |->
     IF \E i \in 1..Len(UpperCase) : UpperCase[i] = text[k]
     THEN LowerCase[CHOOSE i \in 1..Len(UpperCase) : UpperCase[i] = text[k]]
     ELSE text[k]]

RECURSIVE Dashed(_, _)
\* replace(/[^a-z0-9]+/g, "-"): inRun says the character before was replaced.
Dashed(text, inRun) ==
  IF text = <<>> THEN <<>>
  ELSE IF Head(text) \in Alnum THEN <<Head(text)>> \o Dashed(Tail(text), FALSE)
  ELSE IF inRun THEN Dashed(Tail(text), TRUE)
  ELSE <<"-">> \o Dashed(Tail(text), TRUE)

RECURSIVE TrimLeft(_)
TrimLeft(text) ==
  IF text # <<>> /\ Head(text) = "-" THEN TrimLeft(Tail(text)) ELSE text

RECURSIVE TrimRight(_)
TrimRight(text) ==
  IF text # <<>> /\ text[Len(text)] = "-"
  THEN TrimRight(SubSeq(text, 1, Len(text) - 1)) ELSE text

\* replace(/^-+|-+$/g, "")
TrimDashes(text) == TrimRight(TrimLeft(text))

\* slice(0, 50)
SlugMax == 50

Slice(text, n) == SubSeq(text, 1, IF Len(text) < n THEN Len(text) ELSE n)

\* Mutant: the slug cut to 50 characters before the hyphens are trimmed.
NameSlugCutFirst(name) ==
  TrimDashes(Slice(Dashed(ToLowerCase(name), FALSE), SlugMax))

\* The slug of a name as the rendering phase cleans it.
NameSlug(name) == Slice(TrimDashes(Dashed(ToLowerCase(name), FALSE)), SlugMax)

\* The document's name: the timestamp of created_at (of now when absent) and the
\* slug: the cleaned name, or the uuid for a conversation without a name or with
\* a name that cleans to nothing.
Filename(conversation, now) ==
  [timestamp |-> IF Has(conversation, "created_at")
                 THEN conversation.created_at ELSE now,
   slug |-> IF /\ Has(conversation, "name")
               /\ conversation.name # <<>>
               /\ NameSlug(conversation.name) # <<>>
            THEN NameSlug(conversation.name)
            ELSE <<conversation.uuid>>]

\* Mutant: a catch block that logs the error and lets run() return.
ThrowSwallowed(e) == stage' = "Done" /\ error' = e

\* run()'s catch block: the error is logged and rethrown.
Throw(e) == stage' = "Failed" /\ error' = e

NoOutcome == [u \in Uuids |-> "none"]

NoOp == [op |-> "none", collection |-> "none", arg |-> <<>>, again |-> FALSE]

NoFirst == [store |-> EmptyStore, clean |-> TRUE]

\* ZipProcessor.process has not been called.
NoZip == [pc |-> "none"]

\* No function has been called on its own.
NoCall == [called |-> FALSE]

\* The extension is not loaded.
NoExt == [pc |-> "none"]

Init ==
  /\ stage = "Idle"
  /\ error = "none"
  /\ archive = NoArchive
  /\ force = FALSE
  /\ extracted = NoData
  /\ dbReady = FALSE
  /\ idx = 1
  /\ sorted = <<>>
  /\ processedCount = 0
  /\ skippedCount = 0
  /\ data = EmptyStore
  /\ disk = EmptyStore
  /\ meta = DefaultMeta
  /\ written = {}
  /\ clock = 1
  /\ runs = 0
  /\ faults = 0
  /\ outcome = NoOutcome
  /\ changed = {}
  /\ ioFaults = {}
  /\ rerun = FALSE
  /\ first = NoFirst
  /\ lastOp = NoOp
  /\ zip = NoZip
  /\ fn = NoCall
  /\ ext = NoExt
  /\ incremental = FALSE

\* A new process: new AppController(options), then run() up to its first await.
Begin(a, f) ==
  /\ stage' = "Extract"
  /\ error' = "none"
  /\ archive' = a
  /\ force' = f
  /\ extracted' = NoData
  /\ dbReady' = FALSE
  /\ idx' = 1
  /\ sorted' = <<>>
  /\ processedCount' = 0
  /\ skippedCount' = 0
  /\ data' = EmptyStore
  /\ outcome' = NoOutcome
  /\ changed' = {}
  /\ ioFaults' = {}
  /\ written' = {}
  /\ faults' = 0
  /\ UNCHANGED <<disk, meta, clock, lastOp, zip, fn, ext>>

StartRun ==
  /\ stage = "Idle"
  /\ \E a \in Archives, f \in BOOLEAN : Begin(a, f)
  /\ rerun' = FALSE
  /\ first' = NoFirst
  /\ runs' = runs
  /\ incremental' = FALSE

\* The process ends: exit code 0 after Done, 1 after Failed.
Exit ==
  /\ stage \in {"Done", "Failed"}
  /\ stage' = "Idle"
  /\ error' = "none"
  /\ archive' = NoArchive
  /\ force' = FALSE
  /\ extracted' = NoData
  /\ dbReady' = FALSE
  /\ idx' = 1
  /\ sorted' = <<>>
  /\ processedCount' = 0
  /\ skippedCount' = 0
  /\ data' = EmptyStore
  /\ outcome' = NoOutcome
  /\ changed' = {}
  /\ ioFaults' = {}
  /\ written' = {}
  /\ faults' = 0
  /\ rerun' = FALSE
  /\ first' = NoFirst
  /\ UNCHANGED <<disk, meta, clock, runs, lastOp, zip,
                 fn, ext, incremental>>

\* SpecRerun: a run on any archive, counted.
FirstRun ==
  /\ stage = "Idle"
  /\ runs < MaxRuns
  /\ \E a \in Archives, f \in BOOLEAN : Begin(a, f)
  /\ rerun' = FALSE
  /\ first' = NoFirst
  /\ runs' = runs + 1
  /\ incremental' = FALSE

\* SpecRerun: the same command line again, after a run that completed.
Rerun ==
  /\ stage = "Done"
  /\ runs < MaxRuns
  /\ Begin(archive, force)
  /\ rerun' = TRUE
  /\ first' = [store |-> disk, clean |-> ioFaults = {}]
  /\ runs' = runs + 1
  /\ incremental' = incremental

\* SpecRerun: a second passes between a run and its repetition.
Tick ==
  /\ stage = "Done"
  /\ runs < MaxRuns
  /\ clock < MaxClock
  /\ clock' = clock + 1
  /\ UNCHANGED <<stage, error, archive, force, extracted, dbReady, idx, sorted,
                 processedCount, skippedCount, data, disk, meta, written, runs,
                 faults, outcome, changed, ioFaults, rerun, first, lastOp, zip,
                 fn, ext, incremental>>

\* zipProcessor.process(zipFilePath)
Extract ==
  /\ stage = "Extract"
  /\ CASE archive.kind = "corrupt" ->
            Throw("Failed to process zip file: invalid zip") /\ extracted' = extracted
       [] archive.kind = "missing" ->
            Throw("Failed to process zip file: Missing conversations.json")
            /\ extracted' = extracted
       [] archive.kind = "nonArray" ->   \* the process dies of the stream's error
            Throw("Uncaught Error: Top-level object should be an array.")
            /\ extracted' = extracted
       [] OTHER ->
            /\ extracted' = [users |-> archive.users, projects |-> archive.projects,
                             conversations |-> archive.conversations]
            /\ stage' = "StoreUsersProjects"
            /\ error' = error
  /\ UNCHANGED <<archive, force, dbReady, idx, sorted, processedCount,
                 skippedCount, data, disk, meta, written, clock, runs, faults,
                 outcome, changed, ioFaults, rerun, first, lastOp, zip,
                 fn, ext, incremental>>

\* Mutant: db.init() starting from the default data without reading the files.
InitDatabaseNoRead ==
  /\ stage = "StoreUsersProjects"
  /\ ~dbReady
  /\ dbReady' = TRUE
  /\ data' = EmptyStore
  /\ UNCHANGED <<stage, error, archive, force, extracted, idx, sorted,
                 processedCount, skippedCount, disk, meta, written, clock, runs,
                 faults, outcome, changed, ioFaults, rerun, first, lastOp, zip,
                 fn, ext, incremental>>

\* Mutant: db.init() called before the archive is processed.
InitDatabaseEarly ==
  /\ stage \in {"Extract", "StoreUsersProjects"}
  /\ ~dbReady
  /\ dbReady' = TRUE
  /\ data' = disk
  /\ UNCHANGED <<stage, error, archive, force, extracted, idx, sorted,
                 processedCount, skippedCount, disk, meta, written, clock, runs,
                 faults, outcome, changed, ioFaults, rerun, first, lastOp, zip,
                 fn, ext, incremental>>

\* db.init(): each lowdb instance reads its file.
InitDatabase ==
  /\ stage = "StoreUsersProjects"
  /\ ~dbReady
  /\ dbReady' = TRUE
  /\ data' = disk
  /\ UNCHANGED <<stage, error, archive, force, extracted, idx, sorted,
                 processedCount, skippedCount, disk, meta, written, clock, runs,
                 faults, outcome, changed, ioFaults, rerun, first, lastOp, zip,
                 fn, ext, incremental>>

\* storeData: for (const user of users) await this.db.users.upsert(user)
StoreUser ==
  /\ stage = "StoreUsersProjects"
  /\ dbReady
  /\ idx <= Len(extracted.users)
  /\ \E ok \in BOOLEAN :
       /\ CanFail(ok)
       /\ WriteThrough("users", UpsertMem(data.users, extracted.users[idx]), ok)
       /\ IF ok
          THEN idx' = idx + 1 /\ UNCHANGED <<stage, error, ioFaults>>
          ELSE /\ Throw("users write failed")
               /\ idx' = idx
               /\ ioFaults' = ioFaults \cup {"store"}
  /\ UNCHANGED <<archive, force, extracted, dbReady, sorted, processedCount,
                 skippedCount, meta, written, clock, runs, outcome, changed,
                 rerun, first, lastOp, zip,
                 fn, ext, incremental>>

\* storeData: for (const project of projects) await this.db.projects.upsert(project)
StoreProject ==
  /\ stage = "StoreUsersProjects"
  /\ dbReady
  /\ idx > Len(extracted.users)
  /\ idx <= Len(extracted.users) + Len(extracted.projects)
  /\ \E ok \in BOOLEAN :
       /\ CanFail(ok)
       /\ WriteThrough("projects",
                       UpsertMem(data.projects,
                                 extracted.projects[idx - Len(extracted.users)]),
                       ok)
       /\ IF ok
          THEN idx' = idx + 1 /\ UNCHANGED <<stage, error, ioFaults>>
          ELSE /\ Throw("projects write failed")
               /\ idx' = idx
               /\ ioFaults' = ioFaults \cup {"store"}
  /\ UNCHANGED <<archive, force, extracted, dbReady, sorted, processedCount,
                 skippedCount, meta, written, clock, runs, outcome, changed,
                 rerun, first, lastOp, zip,
                 fn, ext, incremental>>

\* storeData: [...conversations].sort(...), the counters set to 0
SortConversations ==
  /\ stage = "StoreUsersProjects"
  /\ dbReady
  /\ idx > Len(extracted.users) + Len(extracted.projects)
  /\ IF SortThrows(extracted.conversations)
     THEN /\ Throw("TypeError: Cannot read properties of null")
          /\ UNCHANGED <<idx, sorted>>
     ELSE /\ sorted' = SortNewestFirst(extracted.conversations)
          /\ stage' = "SyncConversations"
          /\ idx' = 1
          /\ error' = error
  /\ UNCHANGED <<archive, force, extracted, dbReady, processedCount,
                 skippedCount, data, disk, meta, written, clock, runs, faults,
                 outcome, changed, ioFaults, rerun, first, lastOp, zip,
                 fn, ext, incremental>>

\* One turn of storeData's loop over sortedConversations.
SyncConversation ==
  /\ stage = "SyncConversations"
  /\ idx <= Len(sorted)
  /\ LET conversation == sorted[idx]
         existing == IF Invalid(conversation) THEN Null
                     ELSE FindByUuid(data.conversations, conversation.uuid)
     IN
       IF Invalid(conversation) \/ ~ShouldProcess(force, existing, conversation)
       THEN /\ skippedCount' = skippedCount + 1
            /\ idx' = idx + 1
            /\ UNCHANGED <<stage, error, processedCount, data, disk, faults,
                           changed, ioFaults>>
       ELSE \E ok \in BOOLEAN :
              /\ CanFail(ok)
              /\ WriteThrough("conversations",
                              UpsertMem(data.conversations, conversation), ok)
              /\ changed' =
                   IF /\ Processed(existing)
                      /\ HasMarkdownPath(existing)
                      /\ Differs(existing, conversation, "updated_at")
                   THEN changed \cup {conversation.uuid}
                   ELSE changed
              /\ IF ok
                 THEN /\ processedCount' = processedCount + 1
                      /\ idx' = idx + 1
                      /\ UNCHANGED <<stage, error, ioFaults, skippedCount>>
                 ELSE /\ Throw("conversations write failed")
                      /\ ioFaults' = ioFaults \cup {"store"}
                      /\ UNCHANGED <<idx, processedCount, skippedCount>>
  /\ UNCHANGED <<archive, force, extracted, dbReady, sorted, meta, written,
                 clock, runs, outcome, rerun, first, lastOp, zip,
                 fn, ext, incremental>>

\* storeData returns; generateMarkdownFiles: conversations = findAll()
FindAllConversations ==
  /\ stage = "SyncConversations"
  /\ idx > Len(sorted)
  /\ stage' = "RenderDocuments"
  /\ idx' = 1
  /\ UNCHANGED <<error, archive, force, extracted, dbReady, sorted,
                 processedCount, skippedCount, data, disk, meta, written, clock,
                 runs, faults, outcome, changed, ioFaults, rerun, first, lastOp, zip,
                 fn, ext, incremental>>

\* Mutant: a catch block that rethrows, so that run() fails.
RenderCatchRethrows == Throw("render failed")

\* generateMarkdownFiles' catch block: the error is logged and the loop goes on.
RenderCatch == UNCHANGED <<stage, error>>

\* One turn of generateMarkdownFiles' loop over the stored conversations:
\* generate, fs.writeFile, conversations.update, all inside one try/catch.
RenderConversation ==
  /\ stage = "RenderDocuments"
  /\ idx <= Len(data.conversations)
  /\ idx' = idx + 1
  /\ LET conversation == data.conversations[idx]
         uuid == UuidOf(conversation)
         outputPath == Filename(conversation, clock)
         Ends(o) == outcome' = [outcome EXCEPT ![uuid] = o]
     IN
       IF ~RenderDue(force, conversation)
       THEN /\ Ends("skipped")
            /\ UNCHANGED <<stage, error, data, disk, written, faults, ioFaults>>
       ELSE IF GenerateThrows(conversation)
       THEN /\ Ends("generateError")
            /\ RenderCatch
            /\ UNCHANGED <<data, disk, written, faults, ioFaults>>
       ELSE
         \/ /\ faults < MaxFaults        \* fs.writeFile throws
            /\ faults' = faults + 1
            /\ ioFaults' = ioFaults \cup {"file"}
            /\ Ends("fileError")
            /\ RenderCatch
            /\ UNCHANGED <<data, disk, written>>
         \/ /\ written' = written \cup {outputPath}
            /\ \E ok \in BOOLEAN :
                 /\ CanFail(ok)
                 /\ WriteThrough("conversations",
                                 UpdateMem(data.conversations, uuid,
                                           [processed |-> TRUE,
                                            markdownPath |-> outputPath]),
                                 ok)
                 /\ IF ok
                    THEN /\ Ends("rendered")
                         /\ UNCHANGED <<stage, error, ioFaults>>
                    ELSE /\ Ends("storeError")
                         /\ RenderCatch
                         /\ ioFaults' = ioFaults \cup {"store"}
  /\ UNCHANGED <<archive, force, extracted, dbReady, sorted,
                 processedCount, skippedCount, meta, clock, runs, changed,
                 rerun, first, lastOp, zip,
                 fn, ext, incremental>>

\* generateMarkdownFiles returns and run() with it.
FinishRun ==
  /\ stage = "RenderDocuments"
  /\ idx > Len(data.conversations)
  /\ stage' = "Done"
  /\ UNCHANGED <<error, archive, force, extracted, dbReady, idx, sorted,
                 processedCount, skippedCount, data, disk, meta, written, clock,
                 runs, faults, outcome, changed, ioFaults, rerun, first, lastOp, zip,
                 fn, ext, incremental>>

Steps ==
  \/ Extract
  \/ InitDatabase
  \/ StoreUser
  \/ StoreProject
  \/ SortConversations
  \/ SyncConversation
  \/ FindAllConversations
  \/ RenderConversation
  \/ FinishRun

Next ==
  \/ StartRun
  \/ Exit
  \/ Steps

Spec == Init /\ [][Next]_vars

NextRerun ==
  \/ FirstRun
  \/ Rerun
  \/ Tick
  \/ Exit
  \/ Steps

SpecRerun == Init /\ [][NextRerun]_vars

\* ------------------------------------------- repository operations
\* SpecRepo: a client of the repositories calls insert, update, delete and
\* upsert directly, on any collection.
RepoItems ==
  {[uuid |-> "a", updated_at |-> 1], [uuid |-> "a", name |-> <<"x">>], [uuid |-> "b"]}

RepoUpdates == {[updated_at |-> 2]}

RepoKeys == {"a", "b"}

\* The repositories differ in their queries only; two of them are exercised.
RepoCollections == {"users", "conversations"}

Stored == Len(data.users) + Len(data.projects) + Len(data.conversations)

RepoFrame ==
  UNCHANGED <<stage, error, archive, force, extracted, dbReady, idx, sorted,
              processedCount, skippedCount, meta, written, clock, runs,
              outcome, changed, ioFaults, rerun, first, zip,
                 fn, ext, incremental>>

\* lastOp remembers an upsert, and whether it repeats the call before it, and
\* an update.
Called(name, c, arg) ==
  lastOp' = IF name = "update"
            THEN [op |-> name, collection |-> c, arg |-> arg, again |-> FALSE]
            ELSE IF name = "upsert"
            THEN [op |-> name, collection |-> c, arg |-> arg,
                  again |-> /\ lastOp.op = name
                            /\ lastOp.collection = c
                            /\ lastOp.arg = arg]
            ELSE [op |-> "other", collection |-> "none", arg |-> <<>>,
                  again |-> FALSE]

Insert ==
  \E c \in RepoCollections, item \in RepoItems, ok \in BOOLEAN :
    /\ Stored < MaxStored
    /\ CanFail(ok)
    /\ WriteThrough(c, InsertMem(data[c], item), ok)
    /\ Called("insert", c, item)
    /\ RepoFrame

Update ==
  \E c \in RepoCollections, uuid \in RepoKeys, updates \in RepoUpdates, ok \in BOOLEAN :
    /\ IF FindIndex(data[c], uuid) = 0
       THEN ok /\ UNCHANGED <<data, disk, faults>>
       ELSE CanFail(ok) /\ WriteThrough(c, UpdateMem(data[c], uuid, updates), ok)
    /\ Called("update", c, [uuid |-> uuid, updates |-> updates])
    /\ RepoFrame

Delete ==
  \E c \in RepoCollections, uuid \in RepoKeys, ok \in BOOLEAN :
    /\ IF FindIndex(data[c], uuid) = 0
       THEN ok /\ UNCHANGED <<data, disk, faults>>
       ELSE CanFail(ok) /\ WriteThrough(c, DeleteMem(data[c], uuid), ok)
    /\ Called("delete", c, <<uuid>>)
    /\ RepoFrame

Upsert ==
  \E c \in RepoCollections, item \in RepoItems, ok \in BOOLEAN :
    /\ Exists(data[c], UuidOf(item)) \/ Stored < MaxStored
    /\ CanFail(ok)
    /\ WriteThrough(c, UpsertMem(data[c], item), ok)
    /\ Called("upsert", c, item)
    /\ RepoFrame

\* DatabaseService.updateMeta({}).  No code of the repository calls it: it is
\* no disjunct of any next-state relation.
UpdateMeta ==
  /\ meta' = [lastProcessed |-> clock,
              stats |-> [totalConversations |-> Count(data.conversations),
                         totalUsers |-> Count(data.users),
                         totalProjects |-> Count(data.projects)]]
  /\ meta' # meta
  /\ UNCHANGED <<stage, error, archive, force, extracted, dbReady, idx, sorted,
                 processedCount, skippedCount, data, disk, written, clock, runs,
                 faults, outcome, changed, ioFaults, rerun, first, lastOp, zip,
                 fn, ext, incremental>>

NextRepo ==
  \/ Insert
  \/ Update
  \/ Delete
  \/ Upsert

SpecRepo == Init /\ [][NextRepo]_vars

\* ------------------------------------------------------------ claims
StoredConversations == {data.conversations[i] : i \in 1..Len(data.conversations)}

\* C1: in storeData, an incoming conversation c with a uuid, e being the record
\* stored under c.uuid (absent if none), is upserted (appended when e is absent,
\* else merged over e in place) iff force is set, or e is absent, or e.processed
\* is not true, or e.updated_at differs from c.updated_at; otherwise the store is
\* left as it is and c is counted as skipped.
C1_SyncDecision ==
  [][(stage = "SyncConversations" /\ idx <= Len(sorted) /\ ~Invalid(sorted[idx]))
     => LET c == sorted[idx]
            at == {i \in 1..Len(data.conversations) :
                     data.conversations[i].uuid = c.uuid}
            absent == at = {}
            e == data.conversations[CHOOSE i \in at : \A j \in at : i <= j]
            process ==
              \/ force
              \/ absent
              \/ ~absent /\ ~(Has(e, "processed") /\ e.processed = TRUE)
              \/ ~absent /\ e.updated_at # c.updated_at
        IN IF process
           THEN /\ absent => data'.conversations = Append(data.conversations, c)
                /\ ~absent =>
                     \E i \in at :
                       data'.conversations =
                         [data.conversations EXCEPT ![i] = Spread(e, c)]
                /\ skippedCount' = skippedCount
           ELSE /\ data' = data
                /\ disk' = disk
                /\ skippedCount' = skippedCount + 1
                /\ processedCount' = processedCount]_vars

\* C1 witness: a run without force has skipped one valid conversation as up to
\* date and stored another.
C1_Witness ==
  /\ stage = "SyncConversations"
  /\ ~force
  /\ \A i \in 1..Len(sorted) : ~Invalid(sorted[i])
  /\ skippedCount = 1
  /\ processedCount = 1

\* C2: a stored conversation that is processed and has a markdownPath, and that a
\* run without force re-ingests with another updated_at, is regenerated by the
\* rendering phase of that run, not skipped.
C2_ChangedIsRegenerated ==
  (stage = "Done" /\ ~force) => \A u \in changed : outcome[u] # "skipped"

\* C3: no stored conversation lacks a uuid, and an incoming conversation that is
\* null or has no uuid is passed over: it never stops storeData, which goes on
\* with the next conversation.
C3_InvalidIsSkipped ==
  /\ \A c \in StoredConversations : Has(c, "uuid")
  /\ \A i \in 1..Len(disk.conversations) : Has(disk.conversations[i], "uuid")
  /\ (\E i \in 1..Len(extracted.conversations) :
        Invalid(extracted.conversations[i]))
     => ~(stage = "Failed" /\ ioFaults = {})

\* C4: no two records of one collection have the same uuid.
C4_UuidUnique ==
  \A c \in Collections :
    \A i, j \in 1..Len(data[c]) :
      i # j => UuidOf(data[c][i]) # UuidOf(data[c][j])

\* C5: upsert(r) straight after upsert(r) on the same collection leaves the
\* collection, and so its count, as the first call left them.
C5_UpsertIdempotent ==
  [][(lastOp'.op = "upsert" /\ lastOp'.again)
     => /\ data'[lastOp'.collection] = data[lastOp'.collection]
        /\ Count(data'[lastOp'.collection]) = Count(data[lastOp'.collection])]_vars

\* C5 witness: the repeated upsert was a merge into a record that has fields the
\* argument does not have.
C5_Witness ==
  /\ lastOp.op = "upsert"
  /\ lastOp.again
  /\ \E i \in 1..Len(data[lastOp.collection]) :
       /\ UuidOf(data[lastOp.collection][i]) = UuidOf(lastOp.arg)
       /\ DOMAIN data[lastOp.collection][i] # DOMAIN lastOp.arg

\* C6: when a run that completed is repeated on the same archive with the same
\* options and completes, the store on disk (every collection, with each
\* conversation's processed flag and markdownPath) is what the first run left.
\* Stated for runs in which no write failed.
C6_RerunConverges ==
  (stage = "Done" /\ rerun /\ first.clean /\ ioFaults = {})
    => disk = first.store

Running == {"Extract", "StoreUsersProjects", "SyncConversations",
            "RenderDocuments"}

ExtractErrors == {"Failed to process zip file: invalid zip",
                  "Failed to process zip file: Missing conversations.json",
                  "Uncaught Error: Top-level object should be an array."}

StoreErrors == {"users write failed", "projects write failed",
                "TypeError: Cannot read properties of null"}

\* C7: the stage only moves along Extract, StoreUsersProjects,
\* SyncConversations, RenderDocuments, Done, one step at a time and never back;
\* a failing stage moves to Failed with the error that stage raised, leaving the
\* store file and the documents written so far as they are, and after Failed no
\* stage runs: the process only ends.
C7_LinearStages ==
  [][/\ stage' # stage =>
          \/ stage = "Idle" /\ stage' = "Extract"
          \/ stage = "Extract" /\ stage' = "StoreUsersProjects"
          \/ stage = "StoreUsersProjects" /\ stage' = "SyncConversations"
          \/ stage = "SyncConversations" /\ stage' = "RenderDocuments"
          \/ stage = "RenderDocuments" /\ stage' = "Done"
          \/ stage \in Running \ {"RenderDocuments"} /\ stage' = "Failed"
          \/ stage \in {"Done", "Failed"} /\ stage' = "Idle"
     /\ (stage # "Failed" /\ stage' = "Failed") =>
          /\ stage = "Extract" => error' \in ExtractErrors
          /\ stage = "StoreUsersProjects" => error' \in StoreErrors
          /\ stage = "SyncConversations" => error' = "conversations write failed"
          /\ disk' = disk
          /\ written' = written
     /\ stage' \in Running \cup {"Done"} => error' = "none"
     /\ stage = "Failed" => stage' = "Idle" /\ disk' = disk]_vars

\* C7 witness: a run failed in SyncConversations after it had stored a
\* conversation, which is still in the store file.
C7_Witness ==
  /\ stage = "Failed"
  /\ error = "conversations write failed"
  /\ processedCount = 1
  /\ Len(disk.conversations) = 1

\* C8: a run in which a write of the store failed (an upsert of a user, a project
\* or a conversation, or the rendering phase's update) has failed.
C8_WriteFailureAborts ==
  "store" \in ioFaults => stage = "Failed"

RenderErrors == {"generateError", "fileError", "storeError"}

MarkedProcessed(store, u) ==
  \E i \in 1..Len(store.conversations) :
    /\ UuidOf(store.conversations[i]) = u
    /\ Processed(store.conversations[i])
    /\ HasMarkdownPath(store.conversations[i])

\* C9: a turn of the rendering loop in which generating or writing the document
\* throws leaves the store as it was (in memory and on disk), the loop goes on
\* with the next conversation and the run does not fail; when the run is done,
\* every stored conversation whose own rendering did not throw is marked
\* processed with a markdownPath, in memory and on disk.
C9_RenderErrorIsolated ==
  /\ [][\A u \in Uuids :
          (outcome'[u] # outcome[u] /\ outcome'[u] \in RenderErrors) =>
            /\ stage = "RenderDocuments" /\ stage' = "RenderDocuments"
            /\ error' = "none"
            /\ idx' = idx + 1
            /\ disk' = disk
            /\ outcome'[u] # "storeError" => data' = data]_vars
  /\ []((\E u \in Uuids : outcome[u] \in RenderErrors)
          => stage \in {"RenderDocuments", "Done"})
  /\ [](stage = "Done" =>
          \A i \in 1..Len(data.conversations) :
            LET u == UuidOf(data.conversations[i])
            IN outcome[u] \notin RenderErrors =>
                 MarkedProcessed(data, u) /\ MarkedProcessed(disk, u))

\* C9 witness: a run is done in which one conversation's rendering threw and a
\* conversation after it in the store was rendered.
C9_Witness ==
  /\ stage = "Done"
  /\ Len(data.conversations) = 2
  /\ outcome[UuidOf(data.conversations[1])] = "generateError"
  /\ outcome[UuidOf(data.conversations[2])] = "rendered"
  /\ ~MarkedProcessed(disk, UuidOf(data.conversations[1]))

\* C10: when a run is done, the store's metadata holds the time of the run as
\* lastProcessed and the collections' counts as stats.
C10_MetaUpdatedPerRun ==
  stage = "Done" =>
    /\ meta.lastProcessed = clock
    /\ meta.stats = [totalConversations |-> Count(data.conversations),
                     totalUsers |-> Count(data.users),
                     totalProjects |-> Count(data.projects)]

\* C11: each turn of the rendering loop takes the next stored conversation, and
\* skips it, leaving the store as it is, exactly when force is not set and the
\* record has processed = true and a markdownPath; otherwise it generates the
\* document. When the run is done every stored conversation has had its turn,
\* those that the run's archive does not contain included.
C11_RenderDecision ==
  /\ [][(stage = "RenderDocuments" /\ idx <= Len(data.conversations))
        => LET c == data.conversations[idx]
               due == \/ force
                      \/ ~(Has(c, "processed") /\ c.processed = TRUE)
                      \/ ~Has(c, "markdownPath")
           IN /\ outcome'[c.uuid] # "none"
              /\ outcome'[c.uuid] = "skipped" <=> ~due
              /\ ~due => data' = data /\ disk' = disk /\ written' = written
              /\ idx' = idx + 1]_vars
  /\ [](stage = "Done" =>
          \A i \in 1..Len(data.conversations) :
            outcome[data.conversations[i].uuid] # "none")

\* C11 witness: a run without force is done that skipped a conversation its
\* archive does not contain and rendered another.
C11_Witness ==
  /\ stage = "Done"
  /\ ~force
  /\ \E u, v \in Uuids :
       /\ outcome[u] = "skipped"
       /\ outcome[v] = "rendered"
       /\ \A i \in 1..Len(sorted) : UuidOf(sorted[i]) # u

\* ------------------------------------------- storeData as a function
\* SpecOrder: storeData's conversations loop applied to a store and a batch, and
\* to the same store and the batch in another order. No write fails.

\* A conversation with A1's uuid and updated_at and another body.
A1b == [uuid |-> "a", updated_at |-> 1, created_at |-> 1, body |-> "bad"]

OrderItems == {A1, A1b, A2, B1, NoUuid, Null}

OrderStores ==
  {<<>>,
   <<[uuid |-> "a", updated_at |-> 1, created_at |-> 1, body |-> "ok",
      processed |-> TRUE, markdownPath |-> [timestamp |-> 1, slug |-> <<"a">>]]>>,
   <<B1>>}

\* Mutant: the invalid-conversation guard leaving the loop (break).
AfterInvalidBreaks(rest) == <<>>

\* The invalid-conversation guard goes on with the rest of the batch (continue).
AfterInvalid(rest) == rest

RECURSIVE StoreLoop(_, _, _)
\* storeData's loop over the sorted batch, on the conversations collection.
StoreLoop(coll, seq, f) ==
  IF seq = <<>> THEN coll
  ELSE LET conversation == Head(seq)
       IN IF Invalid(conversation)
          THEN StoreLoop(coll, AfterInvalid(Tail(seq)), f)
          ELSE IF ShouldProcess(f, FindByUuid(coll, conversation.uuid),
                                conversation)
          THEN StoreLoop(UpsertMem(coll, conversation), Tail(seq), f)
          ELSE StoreLoop(coll, Tail(seq), f)

\* storeData on the conversations: the sort, which may throw, then the loop.
StoreConversations(coll, batch, f) ==
  IF SortThrows(batch)
  THEN [failed |-> TRUE, conversations |-> coll]
  ELSE [failed |-> FALSE,
        conversations |-> StoreLoop(coll, SortNewestFirst(batch), f)]

\* The orderings of a batch.
Orderings(batch) ==
  {[i \in 1..Len(batch) |-> batch[p[i]]] :
     p \in {q \in [1..Len(batch) -> 1..Len(batch)] :
              \A i, j \in 1..Len(batch) : i # j => q[i] # q[j]}}

\* A store as db.init() read it, and a batch as extraction returned it.
OrderInit ==
  /\ stage = "StoreUsersProjects"
  /\ error = "none"
  /\ archive = NoArchive
  /\ force \in BOOLEAN
  /\ \E batch \in SeqsUpTo(OrderItems, MaxBatch) :
       extracted = [NoData EXCEPT !.conversations = batch]
  /\ dbReady = TRUE
  /\ idx = 1
  /\ sorted = <<>>
  /\ processedCount = 0
  /\ skippedCount = 0
  /\ \E coll \in OrderStores :
       data = [EmptyStore EXCEPT !.conversations = coll]
  /\ disk = data
  /\ meta = DefaultMeta
  /\ written = {}
  /\ clock = 1
  /\ runs = 0
  /\ faults = 0
  /\ outcome = NoOutcome
  /\ changed = {}
  /\ ioFaults = {}
  /\ rerun = FALSE
  /\ first = NoFirst
  /\ lastOp = NoOp
  /\ zip = NoZip
  /\ fn = NoCall
  /\ ext = NoExt
  /\ incremental = FALSE

\* storeData on the batch as given (into data and disk) and on one of its
\* orderings, kept in sorted (into first.store).
OrderStoreData ==
  /\ stage = "StoreUsersProjects"
  /\ \E other \in Orderings(extracted.conversations) :
       LET given == StoreConversations(data.conversations,
                                       extracted.conversations, force)
           permuted == StoreConversations(data.conversations, other, force)
       IN /\ sorted' = other
          /\ data' = [data EXCEPT !.conversations = given.conversations]
          /\ disk' = data'
          /\ first' = [store |-> [data EXCEPT
                                    !.conversations = permuted.conversations],
                       clean |-> ~permuted.failed]
          /\ IF given.failed
             THEN Throw("TypeError: Cannot read properties of null")
             ELSE stage' = "RenderDocuments" /\ error' = error
  /\ UNCHANGED <<archive, force, extracted, dbReady, idx, processedCount,
                 skippedCount, meta, written, clock, runs, faults, outcome,
                 changed, ioFaults, rerun, lastOp, zip,
                 fn, ext, incremental>>

SpecOrder == OrderInit /\ [][OrderStoreData]_vars

\* Each turn of SyncConversation in which the write succeeds leaves the loop's
\* result on what remains of the batch as it was: the loop as a function and the
\* loop taken turn by turn agree.
StoreLoopAgrees ==
  [][(stage = "SyncConversations" /\ stage' = "SyncConversations")
     => StoreLoop(data.conversations, SubSeq(sorted, idx, Len(sorted)), force)
        = StoreLoop(data'.conversations, SubSeq(sorted, idx', Len(sorted)),
                    force)]_vars

Records(coll) == {coll[i] : i \in 1..Len(coll)}

StoreDataDone == stage \in {"RenderDocuments", "Failed"} /\ dbReady

\* C12 as stated: from the same store, storeData on any ordering of a batch ends
\* as storeData on the batch as given does: it fails for both or for neither, and
\* the conversations collection holds the same records.
C12_OrderIndependent ==
  StoreDataDone =>
    /\ first.clean <=> stage # "Failed"
    /\ Records(first.store.conversations) = Records(data.conversations)

DistinctUuids(batch) ==
  \A i, j \in 1..Len(batch) :
    (i # j /\ ~Invalid(batch[i]) /\ ~Invalid(batch[j]))
      => batch[i].uuid # batch[j].uuid

\* C12 amended: when no two conversations of the batch have the same uuid,
\* storeData on any ordering of the batch fails exactly when storeData on the
\* batch as given fails, and ends with the same set of records in the
\* conversations collection.
C12_OrderIndependentDistinct ==
  (StoreDataDone /\ DistinctUuids(extracted.conversations)) =>
    /\ first.clean <=> stage # "Failed"
    /\ Records(first.store.conversations) = Records(data.conversations)

\* C12 witness: two conversations with different uuids and the same updated_at
\* were stored, and the other ordering has them the other way round.
C12_Witness ==
  /\ StoreDataDone
  /\ stage = "RenderDocuments"
  /\ extracted.conversations = <<A1, B1>>
  /\ sorted = <<B1, A1>>
  /\ Records(data.conversations) = {A1, B1}

\* ------------------------------------------------------ ZipProcessor
\* SpecZip: ZipProcessor.process on one file, step by step, with the events of
\* the stream pipeline of processConversationsFile.

EntryNames == {"users.json", "projects.json", "data/conversations.json",
               "readme.txt"}

\* entryName.includes(name)
Includes(entryName, name) ==
  \/ entryName = name
  \/ entryName = "data/conversations.json" /\ name = "conversations.json"

\* entries.find(e => e.entryName.includes(name)); Undefined when none does.
FindEntry(entries, name) ==
  IF \E e \in entries : Includes(e, name)
  THEN CHOOSE e \in entries : Includes(e, name)
  ELSE Undefined

\* What a .json entry can hold: an array, a value that is not an array, or text
\* that is not JSON.
SmallContents ==
  {[kind |-> "array", value |-> <<U1>>], [kind |-> "nonArray", value |-> <<>>],
   [kind |-> "malformed", value |-> <<>>]}

StreamItems == {A1, B1, Null}

\* conversations.json: an array; text that stops being JSON after some elements
\* of an array; a value that is not an array; a file that cannot be read.
StreamContents ==
  [kind : {"array"}, value : SeqsUpTo(StreamItems, MaxBatch)]
  \cup [kind : {"malformed"}, value : SeqsUpTo(StreamItems, MaxBatch - 1)]
  \cup [kind : {"nonArray", "unreadable"}, value : {<<>>}]

ZipFiles ==
  [readable : {TRUE}, entries : SUBSET EntryNames, users : SmallContents,
   projects : SmallContents, conversations : StreamContents]
  \cup
  [readable : {FALSE}, entries : {{}}, users : {[kind |-> "array", value |-> <<U1>>]},
   projects : {[kind |-> "array", value |-> <<U1>>]},
   conversations : {[kind |-> "nonArray", value |-> <<>>]}]

\* process(zipFilePath) is called.
ZipStart(file) ==
  [pc |-> "open", file |-> file, conversationsEntry |-> Undefined,
   usersEntry |-> Undefined, projectsEntry |-> Undefined, tempDir |-> {},
   parsed |-> {}, users |-> <<>>, projects |-> <<>>, conversations |-> <<>>,
   pos |-> 1, promise |-> "none", value |-> <<>>, settles |-> 0,
   error |-> <<>>, result |-> NoData]

ZipInit ==
  /\ stage = "Extract"
  /\ error = "none"
  /\ archive = NoArchive
  /\ force = FALSE
  /\ extracted = NoData
  /\ dbReady = FALSE
  /\ idx = 1
  /\ sorted = <<>>
  /\ processedCount = 0
  /\ skippedCount = 0
  /\ data = EmptyStore
  /\ disk = EmptyStore
  /\ meta = DefaultMeta
  /\ written = {}
  /\ clock = 1
  /\ runs = 0
  /\ faults = 0
  /\ outcome = NoOutcome
  /\ changed = {}
  /\ ioFaults = {}
  /\ rerun = FALSE
  /\ first = NoFirst
  /\ lastOp = NoOp
  /\ \E file \in ZipFiles : zip = ZipStart(file)
  /\ fn = NoCall
  /\ ext = NoExt
  /\ incremental = FALSE

ZipFrame ==
  UNCHANGED <<stage, error, archive, force, extracted, dbReady, idx, sorted,
              processedCount, skippedCount, data, disk, meta, written, clock,
              runs, faults, outcome, changed, ioFaults, rerun, first, lastOp,
              fn, ext, incremental>>

\* process()'s catch block: the error is logged and rethrown, wrapped.
ZipThrow(message) ==
  zip' = [zip EXCEPT !.pc = "thrown",
                     !.error = <<"Failed to process zip file: ", message>>]

\* new AdmZip(zipFilePath) and zip.getEntries()
OpenZip ==
  /\ zip.pc = "open"
  /\ IF zip.file.readable
     THEN zip' = [zip EXCEPT !.pc = "find"]
     ELSE ZipThrow("Invalid or unsupported zip format")
  /\ ZipFrame

\* Mutant: the test of conversationsEntry left out.
MissingNever(entry) == FALSE

\* if (!conversationsEntry)
Missing(entry) == entry = Undefined

\* The three entries.find calls and the test of conversationsEntry.
FindEntries ==
  /\ zip.pc = "find"
  /\ LET conversationsEntry == FindEntry(zip.file.entries, "conversations.json")
     IN IF Missing(conversationsEntry)
        THEN ZipThrow("Missing conversations.json file in the zip archive")
        ELSE zip' = [zip EXCEPT
                       !.pc = "extract",
                       !.conversationsEntry = conversationsEntry,
                       !.usersEntry = FindEntry(zip.file.entries, "users.json"),
                       !.projectsEntry =
                         FindEntry(zip.file.entries, "projects.json")]
  /\ ZipFrame

\* zip.extractAllTo(tempDir, true)
ExtractAllTo ==
  /\ zip.pc = "extract"
  /\ zip' = [zip EXCEPT !.pc = "users", !.tempDir = zip.file.entries]
  /\ ZipFrame

\* Mutant: processJsonFile letting the error of require() through.
ProcessJsonFileThrows(content) ==
  IF content.kind = "array" THEN [threw |-> FALSE, value |-> content.value]
  ELSE IF content.kind = "nonArray" THEN [threw |-> FALSE, value |-> <<>>]
  ELSE [threw |-> TRUE, value |-> <<>>]

\* processJsonFile: require(filePath); the content if it is an array, [] if it
\* is not or if require threw.
ProcessJsonFile(content) ==
  [threw |-> FALSE,
   value |-> IF content.kind = "array" THEN content.value ELSE <<>>]

\* const users = usersEntry ? await this.processJsonFile(...) : []
ProcessUsers ==
  /\ zip.pc = "users"
  /\ IF zip.usersEntry = Undefined
     THEN zip' = [zip EXCEPT !.pc = "projects", !.users = <<>>]
     ELSE LET r == ProcessJsonFile(zip.file.users)
          IN IF r.threw
             THEN ZipThrow("Unexpected token")
             ELSE zip' = [zip EXCEPT !.pc = "projects", !.users = r.value,
                                     !.parsed = @ \cup {zip.usersEntry}]
  /\ ZipFrame

\* const projects = projectsEntry ? await this.processJsonFile(...) : []
ProcessProjects ==
  /\ zip.pc = "projects"
  /\ IF zip.projectsEntry = Undefined
     THEN zip' = [zip EXCEPT !.pc = "conversations", !.projects = <<>>]
     ELSE LET r == ProcessJsonFile(zip.file.projects)
          IN IF r.threw
             THEN ZipThrow("Unexpected token")
             ELSE zip' = [zip EXCEPT !.pc = "conversations",
                                     !.projects = r.value,
                                     !.parsed = @ \cup {zip.projectsEntry}]
  /\ ZipFrame

\* processConversationsFile is called: the promise is created, the listeners are
\* attached and the streams are piped.
StartStream ==
  /\ zip.pc = "conversations"
  /\ zip' = [zip EXCEPT !.pc = "stream", !.promise = "pending",
                        !.conversations = <<>>, !.pos = 1,
                        !.parsed = @ \cup {zip.conversationsEntry}]
  /\ ZipFrame

\* resolve(v) or reject(e): the first call settles the promise.
Settle(z, how, v) ==
  [z EXCEPT !.pc = "settled",
            !.promise = IF z.promise = "pending" THEN how ELSE z.promise,
            !.value = IF z.promise = "pending" THEN v ELSE z.value,
            !.settles = z.settles + 1]

\* arrayStreamer.on("data"): the next element of the array is pushed.
OnData ==
  /\ zip.pc = "stream"
  /\ zip.file.conversations.kind \in {"array", "malformed"}
  /\ zip.pos <= Len(zip.file.conversations.value)
  /\ zip' = [zip EXCEPT
               !.conversations =
                 Append(@, zip.file.conversations.value[zip.pos]),
               !.pos = @ + 1]
  /\ ZipFrame

\* arrayStreamer.on("end"): the array was closed and the input ended.
OnEnd ==
  /\ zip.pc = "stream"
  /\ zip.file.conversations.kind = "array"
  /\ zip.pos > Len(zip.file.conversations.value)
  /\ zip' = Settle(zip, "resolved", zip.conversations)
  /\ ZipFrame

\* fileStream.on("error"): createReadStream cannot read the file.
OnFileError ==
  /\ zip.pc = "stream"
  /\ zip.file.conversations.kind = "unreadable"
  /\ zip' = Settle(zip, "rejected", <<"Error reading file: ", "EISDIR">>)
  /\ ZipFrame

\* jsonParser.on("error"): the text stops being JSON.
OnParserError ==
  /\ zip.pc = "stream"
  /\ zip.file.conversations.kind = "malformed"
  /\ zip.pos > Len(zip.file.conversations.value)
  /\ zip' = Settle(zip, "rejected",
                   <<"Error parsing JSON: ", "Parser cannot parse input">>)
  /\ ZipFrame

\* What an "error" listener on arrayStreamer like the two others would do.
StreamerErrorRejects ==
  zip' = Settle(zip, "rejected",
                <<"Error parsing JSON: ", "Top-level object should be an array.">>)

\* arrayStreamer emits "error" and has no listener for it: the error is thrown
\* as an uncaught exception and the process dies with the promise pending.
StreamerError ==
  zip' = [zip EXCEPT !.pc = "crashed",
                     !.error = <<"Uncaught ", "Top-level object should be an array.">>]

\* streamArray()'s first token is not startArray.
OnStreamerError ==
  /\ zip.pc = "stream"
  /\ zip.file.conversations.kind = "nonArray"
  /\ StreamerError
  /\ ZipFrame

\* The await in process() resumes: the result is returned, or the rejection is
\* caught, logged and rethrown.
ProcessSettled ==
  /\ zip.pc = "settled"
  /\ IF zip.promise = "resolved"
     THEN zip' = [zip EXCEPT !.pc = "returned",
                             !.result = [users |-> zip.users,
                                         projects |-> zip.projects,
                                         conversations |-> zip.value]]
     ELSE ZipThrow(zip.value[1] \o zip.value[2])
  /\ ZipFrame

NextZip ==
  \/ OpenZip
  \/ FindEntries
  \/ ExtractAllTo
  \/ ProcessUsers
  \/ ProcessProjects
  \/ StartStream
  \/ OnData
  \/ OnEnd
  \/ OnFileError
  \/ OnParserError
  \/ OnStreamerError
  \/ ProcessSettled

SpecZip == ZipInit /\ [][NextZip]_vars

\* The entry names that do not contain "conversations.json".
OtherNames == {"users.json", "projects.json", "readme.txt"}

MissingMessage == "Missing conversations.json file in the zip archive"

\* C13: when the zip has no entry whose name contains conversations.json,
\* process() throws once the entries have been looked up, with a message that
\* holds "Missing conversations.json" (wrapped by process()'s catch block),
\* nothing has been extracted to the temporary directory and no file has been
\* parsed, whether or not users.json and projects.json are there.
C13_MissingConversationsFails ==
  (zip.file.readable /\ zip.file.entries \subseteq OtherNames
     /\ zip.pc \notin {"open", "find"})
    => /\ zip.pc = "thrown"
       /\ zip.error = <<"Failed to process zip file: ", MissingMessage>>
       /\ zip.tempDir = {}
       /\ zip.parsed = {}
       /\ zip.promise = "none"

\* C13 witness: process() threw on a zip that has users.json and projects.json
\* and no conversations.json.
C13_Witness ==
  /\ zip.pc = "thrown"
  /\ zip.file.readable
  /\ zip.file.entries = {"users.json", "projects.json"}

\* The optional collection of that name is not in the zip, or is not an array.
Unusable(name, content) ==
  name \notin zip.file.entries \/ content.kind # "array"

\* C14: on a zip whose conversations.json is a well-formed array, process() never
\* throws and goes on until it returns, whatever users.json and projects.json
\* are; it returns every element of conversations.json, and an empty users
\* (projects) collection when users.json (projects.json) is absent or does not
\* hold a well-formed array.
C14_OptionalNeverFails ==
  (/\ zip.file.readable
   /\ "data/conversations.json" \in zip.file.entries
   /\ zip.file.conversations.kind = "array")
    => /\ zip.pc \notin {"thrown", "crashed"}
       /\ zip.pc = "returned" \/ ENABLED NextZip
       /\ zip.pc = "returned" =>
            /\ zip.result.conversations = zip.file.conversations.value
            /\ Unusable("users.json", zip.file.users)
                 => zip.result.users = <<>>
            /\ Unusable("projects.json", zip.file.projects)
                 => zip.result.projects = <<>>

\* C14 witness: process() returned two conversations from a zip whose users.json
\* is not JSON and which has no projects.json.
C14_Witness ==
  /\ zip.pc = "returned"
  /\ "users.json" \in zip.file.entries
  /\ zip.file.users.kind = "malformed"
  /\ "projects.json" \notin zip.file.entries
  /\ Len(zip.result.conversations) = 2
  /\ zip.result.users = <<>>

\* C15: the promise of processConversationsFile settles exactly once and never
\* stays pending: while the stream is being read some event is still to come,
\* and once it is over the promise is resolved with the elements of the array in
\* document order if the file holds an array, and rejected if the file cannot be
\* read, is not JSON, or holds a value that is not an array.
C15_StreamSettlesOnce ==
  zip.promise # "none" =>
    /\ zip.settles <= 1
    /\ zip.pc = "stream" => zip.promise = "pending" /\ ENABLED NextZip
    /\ zip.pc # "stream" =>
         /\ zip.settles = 1
         /\ IF zip.file.conversations.kind = "array"
            THEN /\ zip.promise = "resolved"
                 /\ zip.value = zip.file.conversations.value
            ELSE zip.promise = "rejected"

C17_UpdateMerges ==
  [][lastOp'.op = "update"
     => LET c == lastOp'.collection
            uuid == lastOp'.arg.uuid
            partial == lastOp'.arg.updates
            at == {i \in 1..Len(data[c]) : UuidOf(data[c][i]) = uuid}
        IN IF at = {}
           THEN data' = data /\ disk' = disk
           ELSE LET k == CHOOSE i \in at : \A j \in at : i <= j
                    old == data[c][k]
                    new == data'[c][k]
                IN /\ Len(data'[c]) = Len(data[c])
                   /\ DOMAIN new = DOMAIN old \cup DOMAIN partial
                   /\ \A f \in DOMAIN partial : new[f] = partial[f]
                   /\ \A f \in DOMAIN old \ DOMAIN partial : new[f] = old[f]
                   /\ \A i \in 1..Len(data[c]) : i # k => data'[c][i] = data[c][i]
                   /\ \A d \in Collections \ {c} : data'[d] = data[d]]_vars

\* C17 witness: an update has overwritten updated_at in the second record of a
\* collection and kept its other fields and the first record.
C17_Witness ==
  /\ lastOp.op = "update"
  /\ LET coll == data[lastOp.collection]
     IN /\ Len(coll) = 2
        /\ coll[1] = [uuid |-> "b"]
        /\ coll[2] = [uuid |-> "a", updated_at |-> 2]
        /\ lastOp.arg.uuid = "a"

\* C18: when storeData has returned, the number of skips it reports counts only
\* the conversations skipped as up to date: with the number of conversations
\* stored it makes up the number of conversations of the batch that have a uuid.
C18_InvalidCountedApart ==
  stage = "RenderDocuments" =>
    skippedCount + processedCount =
      Cardinality({i \in 1..Len(sorted) : ~Invalid(sorted[i])})

UuidsIn(coll) == {UuidOf(coll[i]) : i \in 1..Len(coll)}

\* C19: no step of a run takes a conversation out of the store: the uuids in the
\* persisted conversations collection only grow, and so do, from db.init() on,
\* those of the collection in memory, which holds all that is persisted. The
\* store after a run has every uuid it had before the run.
C19_NeverDeleted ==
  /\ [][UuidsIn(disk.conversations) \subseteq UuidsIn(disk'.conversations)]_vars
  /\ [][(dbReady /\ dbReady')
        => UuidsIn(data.conversations) \subseteq UuidsIn(data'.conversations)]_vars
  /\ [](dbReady => UuidsIn(disk.conversations) \subseteq UuidsIn(data.conversations))

\* C19 witness: a run is done that stored a conversation, and the store still has
\* a conversation that the run's archive does not have.
C19_Witness ==
  /\ stage = "Done"
  /\ processedCount >= 1
  /\ \E u \in UuidsIn(disk.conversations) : u \notin UuidsIn(sorted)

\* ------------------------------------------------- rendering phase
\* SpecRender: generateMarkdownFiles on a store of conversations with names.

Names == {<<"H", "i">>, <<"h", "i", "!">>, <<"!">>}

\* Stored conversations of one uuid: with or without created_at and name.
RenderItems(uuid) ==
  {[uuid |-> uuid, updated_at |-> 1, body |-> "ok"]}
  \cup {[uuid |-> uuid, updated_at |-> 1, body |-> "ok", created_at |-> 1]}
  \cup {[uuid |-> uuid, updated_at |-> 1, body |-> "ok", name |-> n] :
          n \in Names}
  \cup {[uuid |-> uuid, updated_at |-> 1, body |-> "ok", created_at |-> 1,
         name |-> n] : n \in Names}

\* Conversations collections as storeData leaves them: one record per uuid.
RenderStores ==
  {<<>>} \cup {<<x>> : x \in RenderItems("a")}
  \cup {<<x, y>> : x \in RenderItems("a"), y \in RenderItems("b")}

RenderInit ==
  /\ stage = "RenderDocuments"
  /\ error = "none"
  /\ archive = NoArchive
  /\ force \in BOOLEAN
  /\ extracted = NoData
  /\ dbReady = TRUE
  /\ idx = 1
  /\ sorted = <<>>
  /\ processedCount = 0
  /\ skippedCount = 0
  /\ \E coll \in RenderStores :
       data = [EmptyStore EXCEPT !.conversations = coll]
  /\ disk = data
  /\ meta = DefaultMeta
  /\ written = {}
  /\ clock = 1
  /\ runs = 0
  /\ faults = 0
  /\ outcome = NoOutcome
  /\ changed = {}
  /\ ioFaults = {}
  /\ rerun = FALSE
  /\ first = NoFirst
  /\ lastOp = NoOp
  /\ zip = NoZip
  /\ fn = NoCall
  /\ ext = NoExt
  /\ incremental = FALSE

SpecRender == RenderInit /\ [][RenderConversation \/ FinishRun]_vars

\* C20: two stored conversations with different uuids never have the same
\* markdownPath, and there are as many documents as conversations whose document
\* was written.
C20_OneFilePerConversation ==
  /\ \A i, j \in 1..Len(data.conversations) :
       LET x == data.conversations[i]
           y == data.conversations[j]
       IN (x.uuid # y.uuid /\ Has(x, "markdownPath") /\ Has(y, "markdownPath"))
            => x.markdownPath # y.markdownPath
  /\ stage = "Done" =>
       Cardinality(written) =
         Cardinality({u \in Uuids : outcome[u] \in {"rendered", "storeError"}})

\* ------------------------------------------------------- file names
\* SpecName: the file name of a conversation, character by character, as the
\* rendering phase computes it inline and as fileUtils.generateFilename does.

\* A Date: the fields of its UTC time, each a sequence of digits.
Dates ==
  {[year |-> <<"2", "0", "2", "5">>, month |-> <<"0", "1">>, day |-> <<"0", "1">>,
    hours |-> <<"1", "2">>, minutes |-> <<"0", "0">>, seconds |-> <<"0", "0">>,
    ms |-> <<"0", "0", "0">>],
   [year |-> <<"2", "0", "2", "4">>, month |-> <<"1", "2">>, day |-> <<"3", "1">>,
    hours |-> <<"2", "3">>, minutes |-> <<"5", "9">>, seconds |-> <<"5", "9">>,
    ms |-> <<"9", "9", "9">>]}

\* Date.prototype.toISOString(): YYYY-MM-DDTHH:mm:ss.sssZ
ToISOString(date) ==
  date.year \o <<"-">> \o date.month \o <<"-">> \o date.day \o <<"T">>
  \o date.hours \o <<":">> \o date.minutes \o <<":">> \o date.seconds
  \o <<".">> \o date.ms \o <<"Z">>

RECURSIVE RemoveAll(_, _)
\* replace(/[-:]/g, ""): every character of the class is removed.
RemoveAll(text, class) ==
  IF text = <<>> THEN <<>>
  ELSE IF Head(text) \in class THEN RemoveAll(Tail(text), class)
  ELSE <<Head(text)>> \o RemoveAll(Tail(text), class)

\* replace("T", "_"): the first occurrence of a character is replaced.
ReplaceFirst(text, ch, by) ==
  IF \E i \in 1..Len(text) : text[i] = ch
  THEN LET k == CHOOSE i \in 1..Len(text) :
                  text[i] = ch /\ \A j \in 1..(i - 1) : text[j] # ch
       IN [text EXCEPT ![k] = by]
  ELSE text

\* slice(0, 15)
StampMax == 15

\* The timestamp of a file name.
Stamp(date) ==
  Slice(ReplaceFirst(RemoveAll(ToISOString(date), {"-", ":"}), "T", "_"),
        StampMax)

\* `${timestamp}_${nameSlug}.md` with the timestamp and the slug of Filename.
FilenameText(conversation, now) ==
  LET f == Filename(conversation, now)
  IN Stamp(f.timestamp) \o <<"_">> \o f.slug \o <<".", "m", "d">>

Repeat(ch, n) == [i \in 1..n |-> ch]

\* Names: short ones, ones that clean to nothing, ones longer than the cap.
LongNames ==
  {<<"T", "e", "s", "t", " ", "P", "r", "o", "j", "e", "c", "t", "!", "!">>,
   <<"!", "!">>, <<>>, <<"a">>, <<"A", "1">>,
   <<"-", "a", "-", "-", "B", "9", "-">>,
   Repeat("a", SlugMax + 1),
   Repeat("a", SlugMax) \o <<"!">>,
   Repeat("a", SlugMax - 1) \o <<"!", "b">>,
   Repeat("a", SlugMax - 2) \o <<"!", "!", "b", "c">>}

NameItems ==
  {[uuid |-> "a"]}
  \cup {[uuid |-> "a", created_at |-> d] : d \in Dates}
  \cup {[uuid |-> "a", name |-> n] : n \in LongNames}
  \cup {[uuid |-> "a", created_at |-> d, name |-> n] :
          d \in Dates, n \in LongNames}

\* Every variable but fn as the program starts.
NoPipeline ==
  /\ stage = "Idle"
  /\ error = "none"
  /\ archive = NoArchive
  /\ force = FALSE
  /\ extracted = NoData
  /\ dbReady = FALSE
  /\ idx = 1
  /\ sorted = <<>>
  /\ processedCount = 0
  /\ skippedCount = 0
  /\ data = EmptyStore
  /\ disk = EmptyStore
  /\ meta = DefaultMeta
  /\ written = {}
  /\ clock = 1
  /\ runs = 0
  /\ faults = 0
  /\ outcome = NoOutcome
  /\ changed = {}
  /\ ioFaults = {}
  /\ rerun = FALSE
  /\ first = NoFirst
  /\ lastOp = NoOp
  /\ zip = NoZip
  /\ ext = NoExt
  /\ incremental = FALSE

FnFrame ==
  UNCHANGED <<stage, error, archive, force, extracted, dbReady, idx, sorted,
              processedCount, skippedCount, data, disk, meta, written, clock,
              runs, faults, outcome, changed, ioFaults, rerun, first, lastOp,
              zip, ext, incremental>>

\* fileUtils.generateFilename(conversation)
GenerateFilename(conversation, now) ==
  LET timestamp == IF Has(conversation, "created_at")
                   THEN Stamp(conversation.created_at) ELSE Stamp(now)
      nameSlug == IF Has(conversation, "name") /\ conversation.name # <<>>
                  THEN NameSlug(conversation.name)
                  ELSE <<conversation.uuid>>
  IN timestamp \o <<"_">> \o nameSlug \o <<".", "m", "d">>

Undone == <<"?">>

NameInit ==
  /\ NoPipeline
  /\ \E conversation \in NameItems, now \in Dates :
       fn = [called |-> FALSE, conversation |-> conversation, now |-> now,
             inline |-> Undone, util |-> Undone]

\* The rendering phase builds the file name of the conversation.
RenderFilename ==
  /\ fn.inline = Undone
  /\ fn' = [fn EXCEPT !.called = TRUE,
                      !.inline = FilenameText(fn.conversation, fn.now)]
  /\ FnFrame

\* generateFilename is called on the conversation.
CallGenerateFilename ==
  /\ fn.util = Undone
  /\ fn' = [fn EXCEPT !.called = TRUE,
                      !.util = GenerateFilename(fn.conversation, fn.now)]
  /\ FnFrame

SpecName == NameInit /\ [][RenderFilename \/ CallGenerateFilename]_vars

\* The maximal runs of a-z0-9 in a text, joined by one hyphen each: the text
\* from position i on, started says a run has been written before.
RECURSIVE JoinedRuns(_, _, _)
JoinedRuns(text, i, started) ==
  IF i > Len(text) THEN <<>>
  ELSE IF text[i] \notin Alnum THEN JoinedRuns(text, i + 1, started)
  ELSE (IF started /\ text[i - 1] \notin Alnum THEN <<"-">> ELSE <<>>)
       \o <<text[i]>> \o JoinedRuns(text, i + 1, TRUE)

\* YYYYMMDD_HHMMSS
CompactStamp(date) ==
  date.year \o date.month \o date.day \o <<"_">> \o date.hours \o date.minutes
  \o date.seconds

\* C21: the file name the rendering phase builds is <timestamp>_<slug>.md: the
\* timestamp is YYYYMMDD_HHMMSS of created_at, or of the current time when
\* created_at is absent; the slug is the lower-cased name with each run of
\* characters outside a-z0-9 turned into one hyphen and no hyphen at either end,
\* cut to 50 characters, or the uuid when the name is absent or that slug is
\* empty.
C21_FilenameFormat ==
  fn.inline # Undone =>
    LET c == fn.conversation
        date == IF "created_at" \in DOMAIN c THEN c.created_at ELSE fn.now
        cleaned == IF "name" \in DOMAIN c
                   THEN JoinedRuns(ToLowerCase(c.name), 1, FALSE) ELSE <<>>
        capped == IF Len(cleaned) > 50 THEN SubSeq(cleaned, 1, 50) ELSE cleaned
        slug == IF capped = <<>> THEN <<c.uuid>> ELSE capped
    IN fn.inline = CompactStamp(date) \o <<"_">> \o slug \o <<".", "m", "d">>

\* C21 witness: the file name of a conversation named "Test Project!!" and created
\* at 2025-01-01T12:00:00Z is 20250101_120000_test-project.md.
C21_Witness ==
  /\ fn.called
  /\ "name" \in DOMAIN fn.conversation
  /\ fn.conversation.name =
       <<"T", "e", "s", "t", " ", "P", "r", "o", "j", "e", "c", "t", "!", "!">>
  /\ fn.inline =
       <<"2", "0", "2", "5", "0", "1", "0", "1", "_", "1", "2", "0", "0", "0", "0",
         "_", "t", "e", "s", "t", "-", "p", "r", "o", "j", "e", "c", "t", ".",
         "m", "d">>

\* C28: generateFilename returns the file name the rendering phase builds for the
\* same conversation, whenever the conversation has a created_at.
C28_SameFilename ==
  (fn.inline # Undone /\ fn.util # Undone /\ Has(fn.conversation, "created_at"))
    => fn.util = fn.inline

\* --------------------------------------------------- --incremental
\* SpecIncremental: runs with and without the --incremental option, force unset.

\* A run started with --incremental.
StartIncremental ==
  /\ stage = "Idle"
  /\ \E a \in Archives : Begin(a, FALSE)
  /\ rerun' = FALSE
  /\ first' = NoFirst
  /\ runs' = runs
  /\ incremental' = TRUE

\* A run started without options.
StartPlain ==
  /\ stage = "Idle"
  /\ \E a \in Archives : Begin(a, FALSE)
  /\ rerun' = FALSE
  /\ first' = NoFirst
  /\ runs' = runs
  /\ incremental' = FALSE

NextIncremental == StartIncremental \/ StartPlain \/ Exit \/ Steps

SpecIncremental == Init /\ [][NextIncremental]_vars

\* C22: in a run with --incremental, a turn of storeData's loop on a conversation
\* whose uuid is in the store already (the batch having no uuid twice) does not
\* store it again: the store stays as it is, in memory and on disk.
C22_IncrementalOnlyNew ==
  [][(/\ incremental
      /\ stage = "SyncConversations"
      /\ idx <= Len(sorted)
      /\ DistinctUuids(sorted)
      /\ ~Invalid(sorted[idx])
      /\ Exists(data.conversations, sorted[idx].uuid))
     => data' = data /\ disk' = disk]_vars

\* ------------------------------------------------- MarkdownGenerator
\* Texts are tuples of characters over a letter, a blank and a line break.

WhiteSpace == {" ", "\n"}

RECURSIVE TrimStart(_)
TrimStart(text) ==
  IF text # <<>> /\ Head(text) \in WhiteSpace THEN TrimStart(Tail(text))
  ELSE text

RECURSIVE TrimEnd(_)
TrimEnd(text) ==
  IF text # <<>> /\ text[Len(text)] \in WhiteSpace
  THEN TrimEnd(SubSeq(text, 1, Len(text) - 1)) ELSE text

\* String.prototype.trim
Trim(text) == TrimEnd(TrimStart(text))

RECURSIVE FirstLine(_)
\* split("\n")[0]
FirstLine(text) ==
  IF text = <<>> \/ Head(text) = "\n" THEN <<>>
  ELSE <<Head(text)>> \o FirstLine(Tail(text))

\* substring(0, 50)
TitleMax == 50

Ellipsis == <<".", ".", ".">>

\* `Conversation ${conversation.uuid}`
UuidTitle(conversation) ==
  <<"C", "o", "n", "v", "e", "r", "s", "a", "t", "i", "o", "n", " ",
    conversation.uuid>>

\* getTitle: the name when it has more than blanks; else the trimmed first line
\* of the first message's text when that text has more than blanks, cut to 50
\* characters and "..." when longer; else "Conversation <uuid>".
GetTitle(conversation) ==
  IF Has(conversation, "name") /\ conversation.name # <<>>
     /\ Trim(conversation.name) # <<>>
  THEN conversation.name
  ELSE IF /\ Has(conversation, "chat_messages")
          /\ Len(conversation.chat_messages) > 0
          /\ Has(conversation.chat_messages[1], "text")
          /\ conversation.chat_messages[1].text # <<>>
          /\ Trim(conversation.chat_messages[1].text) # <<>>
  THEN LET firstLine == Trim(FirstLine(conversation.chat_messages[1].text))
       IN IF Len(firstLine) > TitleMax
          THEN SubSeq(firstLine, 1, TitleMax) \o Ellipsis
          ELSE firstLine
  ELSE UuidTitle(conversation)

MaxText == 3

TextChars == {"a", " ", "\n"}

\* Every text of at most MaxText characters.
ShortTexts == UNION {[1..n -> TextChars] : n \in 0..MaxText}

\* Texts around the cap of 50 characters.
LongTexts ==
  {Repeat("a", TitleMax), Repeat("a", TitleMax + 1),
   Repeat("a", TitleMax + 1) \o <<"\n", "a">>,
   <<" ">> \o Repeat("a", TitleMax) \o <<" ">>}

TitleNames == {<<>>, <<" ">>, <<"a">>, <<" ", "a">>}

TitleMessages ==
  {<<>>, <<[sender |-> "human"]>>}
  \cup {<<[text |-> t]>> : t \in ShortTexts \cup LongTexts}
  \cup {<<[sender |-> "human"], [text |-> <<"a">>]>>,
        <<[text |-> <<"a">>], [text |-> Repeat("a", TitleMax + 1)]>>}

TitleItems ==
  {[uuid |-> "u"]}
  \cup {[uuid |-> "u", name |-> n] : n \in TitleNames}
  \cup {[uuid |-> "u", chat_messages |-> m] : m \in TitleMessages}
  \cup {[uuid |-> "u", name |-> n, chat_messages |-> m] :
          n \in TitleNames, m \in TitleMessages}

TitleInit ==
  /\ NoPipeline
  /\ \E conversation \in TitleItems :
       fn = [called |-> FALSE, conversation |-> conversation, title |-> Undone]

\* generate() asks for the title of the conversation.
CallGetTitle ==
  /\ ~fn.called
  /\ fn' = [fn EXCEPT !.called = TRUE, !.title = GetTitle(fn.conversation)]
  /\ FnFrame

SpecTitle == TitleInit /\ [][CallGetTitle]_vars

\* A text with a character that is no blank and no line break.
NonBlank(text) == \E i \in 1..Len(text) : text[i] \notin WhiteSpace

\* The first line of a text without the blanks around it, counted by positions.
LineOf(text) ==
  LET stop == IF \E i \in 1..Len(text) : text[i] = "\n"
              THEN (CHOOSE i \in 1..Len(text) :
                      /\ text[i] = "\n"
                      /\ \A j \in 1..(i - 1) : text[j] # "\n") - 1
              ELSE Len(text)
      inked == {i \in 1..stop : text[i] \notin WhiteSpace}
  IN IF inked = {} THEN <<>>
     ELSE LET lo == CHOOSE i \in inked : \A j \in inked : i <= j
              hi == CHOOSE i \in inked : \A j \in inked : j <= i
          IN SubSeq(text, lo, hi)

\* C23: the title is the name when the name is non-empty (has more than
\* blanks); otherwise the first line of the first message's text, cut to 50
\* characters and an ellipsis when longer; and in every case the title is a
\* non-empty string.
C23_Title ==
  fn.called =>
    LET c == fn.conversation
        named == Has(c, "name") /\ NonBlank(c.name)
        line == IF Has(c, "chat_messages") /\ Len(c.chat_messages) > 0
                   /\ Has(c.chat_messages[1], "text")
                THEN LineOf(c.chat_messages[1].text) ELSE <<>>
    IN /\ named => fn.title = c.name
       /\ (~named /\ line # <<>>) =>
            fn.title = IF Len(line) > TitleMax
                       THEN SubSeq(line, 1, TitleMax) \o Ellipsis ELSE line
       /\ fn.title # <<>>

\* ---------------------------------------------------------- processText

\* \w
WordChars ==
  Alnum \cup {UpperCase[i] : i \in 1..Len(UpperCase)} \cup {"_"}

\* The backtick, written as its code point.
Backtick == "U+0060"

Fence == <<Backtick, Backtick, Backtick>>

\* Mutant: the code of a fence kept with its first and last line break.
KeepNewlines(code) == code

\* The replacer's two cuts: one line break off the start of the code when it
\* starts with one, then one off the end when it ends with one.
StripNewlines(code) ==
  LET cut == IF code # <<>> /\ Head(code) = "\n" THEN Tail(code) ELSE code
  IN IF cut # <<>> /\ cut[Len(cut)] = "\n"
     THEN SubSeq(cut, 1, Len(cut) - 1) ELSE cut

RECURSIVE ReplaceFences(_, _)
\* replace(/<fence>(\w*)([\s\S]*?)<fence>/g, replacer) from position i on: at a fence,
\* the language is the longest run of word characters after it and the code
\* ends at the first fence from there on; the match is rewritten and the scan
\* goes on behind it. Where nothing matches the character is kept.
ReplaceFences(text, i) ==
  LET FenceAt(j) == j + 2 <= Len(text) /\ SubSeq(text, j, j + 2) = Fence
      words == {j \in (i + 3)..(Len(text) + 1) :
                  \A k \in (i + 3)..(j - 1) : text[k] \in WordChars}
      stop == CHOOSE j \in words : \A k \in words : k <= j
      closes == {j \in stop..Len(text) : FenceAt(j)}
      close == CHOOSE j \in closes : \A k \in closes : j <= k
  IN IF i > Len(text) THEN <<>>
     ELSE IF FenceAt(i) /\ closes # {}
     THEN Fence \o SubSeq(text, i + 3, stop - 1) \o <<"\n">>
          \o StripNewlines(SubSeq(text, stop, close - 1)) \o <<"\n">> \o Fence
          \o ReplaceFences(text, close + 3)
     ELSE <<text[i]>> \o ReplaceFences(text, i + 1)

\* processText: "" for no text, else the text with its fenced spans rewritten.
ProcessText(text) == IF text = <<>> THEN <<>> ELSE ReplaceFences(text, 1)

MaxFence == 9

FenceChars == {Backtick, "a", "\n"}

\* Every text of at most MaxFence characters of backticks, letters, line breaks.
FenceTexts == UNION {[1..n -> FenceChars] : n \in 0..MaxFence}

FenceInit ==
  /\ NoPipeline
  /\ \E text \in FenceTexts :
       fn = [called |-> FALSE, text |-> text, once |-> Undone, twice |-> Undone]

\* processText on the text.
ProcessOnce ==
  /\ fn.once = Undone
  /\ fn' = [fn EXCEPT !.called = TRUE, !.once = ProcessText(fn.text)]
  /\ FnFrame

\* processText on what processText returned.
ProcessAgain ==
  /\ fn.once # Undone
  /\ fn.twice = Undone
  /\ fn' = [fn EXCEPT !.twice = ProcessText(fn.once)]
  /\ FnFrame

SpecFence == FenceInit /\ [][ProcessOnce \/ ProcessAgain]_vars

\* The number of fences in a text, counted from the left without overlap.
RECURSIVE Fences(_, _)
Fences(text, i) ==
  IF i + 2 > Len(text) THEN 0
  ELSE IF SubSeq(text, i, i + 2) = Fence THEN 1 + Fences(text, i + 3)
  ELSE Fences(text, i + 1)

\* C25: processText is idempotent: processText(processText(t)) = processText(t)
\* for every text t.
C25_Idempotent == (fn.called /\ fn.twice # Undone) => fn.twice = fn.once

\* processText was applied twice to a text with a fence pair and a third fence,
\* whose first application changed the text.
C25_Witness ==
  /\ fn.called
  /\ fn.twice # Undone
  /\ Fences(fn.text, 1) = 3 \* odd number of fence markers
  /\ fn.once # fn.text

\* ------------------------------------------------------ generateMessage
\* The body of a message is the tuple of the non-empty pieces appended to the
\* markdown, in order. Characters outside ASCII are written as code points.

\* text.includes(part)
TextIncludes(text, part) ==
  \E i \in 1..(Len(text) - Len(part) + 1) :
    SubSeq(text, i, i + Len(part) - 1) = part

\* Letters of the Hebrew and Arabic ranges of rtlUnicodeRegex.
RtlLetters == {"U+05D0", "U+0627"}

\* detectTextDirection: rtl for a Hebrew or Arabic letter, for an escape
\* sequence \u05.. or \u06.., for the garbled markers U+00D7 with U+2014.
DetectTextDirection(text) ==
  IF text = <<>> THEN "ltr"
  ELSE IF \E i \in 1..Len(text) : text[i] \in RtlLetters THEN "rtl"
  ELSE IF \/ TextIncludes(text, <<"\\", "u", "0", "5">>)
          \/ TextIncludes(text, <<"\\", "u", "0", "6">>) THEN "rtl"
  ELSE IF TextIncludes(text, <<"U+00D7">>) /\ TextIncludes(text, <<"U+2014">>)
  THEN "rtl"
  ELSE "ltr"

\* What a text adds to the markdown: processText of it, inside the dir="rtl"
\* block when the text is right-to-left; nothing when that is the empty string.
TextPieces(text) ==
  IF ProcessText(text) = <<>> /\ DetectTextDirection(text) = "ltr" THEN <<>>
  ELSE <<[by |-> "processText", rtl |-> DetectTextDirection(text) = "rtl",
          out |-> ProcessText(text)]>>

\* processToolUse: the section of a tool_use item (name or "Unknown", the input
\* as a json block) or of a tool_result item (name, the content as a plain block
\* when a string and as a json block otherwise, the error note); nothing for an
\* item of another type. A content value is [string |-> s] or [object |-> o].
ProcessToolUse(item) ==
  IF Has(item, "type") /\ item.type = "tool_use"
  THEN <<[by |-> "processToolUse", section |-> "Tool Use",
          name |-> IF Has(item, "name") /\ item.name # ""
                   THEN item.name ELSE "Unknown",
          block |-> IF Has(item, "input")
                    THEN [lang |-> "json", of |-> item.input]
                    ELSE [lang |-> "none"],
          error |-> FALSE]>>
  ELSE IF Has(item, "type") /\ item.type = "tool_result"
  THEN <<[by |-> "processToolUse", section |-> "Tool Result",
          name |-> IF Has(item, "name") /\ item.name # ""
                   THEN item.name ELSE "Unknown",
          block |-> IF ~Has(item, "content") THEN [lang |-> "none"]
                    ELSE IF Has(item.content, "string")
                    THEN (IF item.content.string = <<>> THEN [lang |-> "none"]
                          ELSE [lang |-> "", of |-> item.content])
                    ELSE [lang |-> "json", of |-> item.content],
          error |-> Has(item, "is_error") /\ item.is_error]>>
  ELSE <<>>

\* Mutant: an item of an unknown type rendered by the tool renderer's heading.
ItemPiecesRendersAll(item) ==
  IF Has(item, "type") /\ item.type = "text" /\ Has(item, "text")
     /\ item.text # <<>>
  THEN TextPieces(item.text)
  ELSE IF Has(item, "type") /\ item.type \in {"tool_use", "tool_result"}
  THEN ProcessToolUse(item)
  ELSE <<[by |-> "processToolUse", section |-> "Unknown"]>>

\* One turn of the loop over message.content.
ItemPieces(item) ==
  IF Has(item, "type") /\ item.type = "text" /\ Has(item, "text")
     /\ item.text # <<>>
  THEN TextPieces(item.text)
  ELSE IF Has(item, "type") /\ item.type \in {"tool_use", "tool_result"}
  THEN ProcessToolUse(item)
  ELSE <<>>

RECURSIVE ContentPieces(_)
ContentPieces(content) ==
  IF content = <<>> THEN <<>>
  ELSE ItemPieces(Head(content)) \o ContentPieces(Tail(content))

\* generateMessage, the message content: the text when it is truthy, else the
\* items of content.
MessageBody(message) ==
  IF Has(message, "text") /\ message.text # <<>>
  THEN TextPieces(message.text)
  ELSE IF Has(message, "content") THEN ContentPieces(message.content)
  ELSE <<>>

MaxItems == 2

BodyTexts ==
  {<<>>, <<"a">>, Fence \o <<"a", "\n">> \o Fence, <<"U+05D0">>,
   <<"\\", "u", "0", "5", "d", "0">>, <<"U+00D7", "U+2014">>}

ContentItems ==
  {[type |-> "text", text |-> t] : t \in BodyTexts}
  \cup {[type |-> "text"], [type |-> "image"], [text |-> <<"a">>],
        [type |-> "tool_use", name |-> "calculator",
         input |-> [object |-> "expression"]],
        [type |-> "tool_use"],
        [type |-> "tool_result", name |-> "calculator",
         content |-> [string |-> <<"4">>], is_error |-> FALSE],
        [type |-> "tool_result", name |-> "",
         content |-> [object |-> "rows"], is_error |-> TRUE],
        [type |-> "tool_result", content |-> [string |-> <<>>]]}

Contents == UNION {[1..n -> ContentItems] : n \in 0..MaxItems}

BodyMessages ==
  {[sender |-> "human"]}
  \cup {[sender |-> "human", text |-> t] : t \in BodyTexts}
  \cup {[sender |-> "assistant", content |-> c] : c \in Contents}
  \cup {[sender |-> "assistant", text |-> t, content |-> c] :
          t \in BodyTexts, c \in Contents}

BodyInit ==
  /\ NoPipeline
  /\ \E message \in BodyMessages :
       fn = [called |-> FALSE, message |-> message, body |-> Undone]

\* generateMessage on the message.
CallGenerateMessage ==
  /\ ~fn.called
  /\ fn' = [fn EXCEPT !.called = TRUE, !.body = MessageBody(fn.message)]
  /\ FnFrame

SpecBody == BodyInit /\ [][CallGenerateMessage]_vars

\* What the claim has an item contribute, by its type.
RECURSIVE Dispatched(_)
Dispatched(content) ==
  IF content = <<>> THEN <<>>
  ELSE LET item == Head(content)
           type == IF Has(item, "type") THEN item.type ELSE "none"
       IN (CASE type = "text" ->
                  TextPieces(IF Has(item, "text") THEN item.text ELSE <<>>)
             [] type \in {"tool_use", "tool_result"} -> ProcessToolUse(item)
             [] OTHER -> <<>>)
          \o Dispatched(Tail(content))

\* C24 as stated: when the text is present the body is that text alone through
\* processText; otherwise the items of content, dispatched in order by type.
C24_BodyResolution ==
  fn.called =>
    LET message == fn.message
    IN IF Has(message, "text")
       THEN fn.body = TextPieces(message.text)
       ELSE fn.body = Dispatched(IF Has(message, "content")
                                 THEN message.content ELSE <<>>)

\* C24: when the text is present and non-empty the body is that text alone
\* through processText; otherwise the items of content are dispatched in order
\* by type, an item of another type adding nothing.
C24_BodyResolutionNonEmpty ==
  fn.called =>
    LET message == fn.message
    IN IF Has(message, "text") /\ message.text # <<>>
       THEN fn.body = TextPieces(message.text)
       ELSE fn.body = Dispatched(IF Has(message, "content")
                                 THEN message.content ELSE <<>>)

\* generateMessage ran on a message with an empty text and a content of a tool
\* item and an item of an unknown type: the body is the tool section alone.
C24_Witness ==
  /\ fn.called
  /\ Has(fn.message, "text") /\ fn.message.text = <<>>
  /\ Has(fn.message, "content") /\ Len(fn.message.content) = 2
  /\ fn.message.content[1] = [type |-> "image"]
  /\ [type |-> "tool_use"] = fn.message.content[2]
  /\ Len(fn.body) = 1

\* ------------------------------------------------- processed and its file

\* The record of uuid u in a store has processed = true.
ProcessedIn(store, u) ==
  \E i \in 1..Len(store.conversations) :
    /\ UuidOf(store.conversations[i]) = u
    /\ Processed(store.conversations[i])

\* The rendering phase is at the conversation of uuid u.
RenderingOf(u) ==
  /\ stage = "RenderDocuments"
  /\ idx <= Len(data.conversations)
  /\ UuidOf(data.conversations[idx]) = u

\* C26: a conversation becomes processed in memory only by the rendering
\* phase's step on it, and in the files only by a write of the rendering phase,
\* each time together with a markdownPath whose file has been written; a step
\* whose file write fails leaves the store as it was.
C26_ProcessedAfterFile ==
  [][\A u \in Uuids :
       /\ (ProcessedIn(disk', u) /\ ~ProcessedIn(disk, u)) =>
            /\ stage = "RenderDocuments"
            /\ MarkedProcessed(disk', u)
            /\ FindByUuid(disk'.conversations, u).markdownPath \in written'
       /\ (dbReady /\ ProcessedIn(data', u) /\ ~ProcessedIn(data, u)) =>
            /\ RenderingOf(u)
            /\ MarkedProcessed(data', u)
            /\ FindByUuid(data'.conversations, u).markdownPath \in written'
       /\ (RenderingOf(u) /\ outcome'[u] = "fileError") =>
            data' = data /\ disk' = disk]_vars

\* A run rendered one conversation, now processed in the files, and failed to
\* write the file of another, which is not processed.
C26_Witness ==
  \E u, v \in Uuids :
    /\ outcome[u] = "rendered"
    /\ MarkedProcessed(disk, u)
    /\ outcome[v] = "fileError"
    /\ Exists(disk.conversations, v)
    /\ ~ProcessedIn(disk, v)

\* ------------------------------------------------- a failed extraction

\* C27: from the start of a run through a failure of its Extract stage to the
\* exit, no step changes a store collection, the metadata or the store in
\* memory, and none writes a document; the store is opened only in the stage
\* after a successful extraction.
C27_ExtractFailureFrame ==
  [][/\ (\/ stage \in {"Idle", "Extract"}
         \/ stage = "Failed" /\ error \in ExtractErrors) =>
          /\ disk' = disk
          /\ meta' = meta
          /\ data' = data
          /\ written' \subseteq written
     /\ (~dbReady /\ dbReady') =>
          /\ stage = "StoreUsersProjects"
          /\ error = "none"]_vars

\* A run failed in its Extract stage over a store that an earlier run filled.
C27_Witness ==
  /\ stage = "Failed"
  /\ error \in ExtractErrors
  /\ ~dbReady
  /\ disk.conversations # <<>>
  /\ written = {}

\* ------------------------------------------- the background listener
\* SpecListener: the popup sends messages with sendMessageToBackground and the
\* background script's onMessage listener answers them. ext holds the listener's
\* position (pc), the message, how the awaited operation settled (op), the
\* values sendResponse was called with (responses), chrome.runtime.lastError as
\* the popup's callback sees it, and the popup's promise.

MaxMessages == 2

Unsettled == [state |-> "none"]

\* A returned string is written [string |-> s].
Messages ==
  {Null, [action |-> "processZipFile", data |-> [fileName |-> "export.zip"]],
   [action |-> "processZipFile"], [action |-> "prepareMarkdownDownload"],
   [action |-> "deleteAll"], [data |-> [fileName |-> "export.zip"]]}

\* processZipFile and prepareMarkdownDownload settle: with their result, or
\* with an Error of some message.
OperationOutcomes(action) ==
  {[state |-> "threw", message |-> m] : m \in {"Invalid zip file", ""}}
  \cup (IF action = "processZipFile"
        THEN {[state |-> "returned", value |-> [processed |-> 2, errors |-> 0]]}
        ELSE {[state |-> "returned", value |-> [string |-> "blob:url"]]})

\* The background script is loaded: the listener is registered.
LoadBackground ==
  /\ ext = NoExt
  /\ ext' = [pc |-> "idle", message |-> Null, op |-> Unsettled, responses |-> <<>>,
             lastError |-> FALSE, popup |-> "none", handled |-> 0]
  /\ UNCHANGED <<stage, error, archive, force, extracted, dbReady, idx, sorted,
                 processedCount, skippedCount, data, disk, meta, written, clock,
                 runs, faults, outcome, changed, ioFaults, rerun, first, lastOp,
                 zip, fn, incremental>>

ExtFrame ==
  UNCHANGED <<stage, error, archive, force, extracted, dbReady, idx, sorted,
              processedCount, skippedCount, data, disk, meta, written, clock,
              runs, faults, outcome, changed, ioFaults, rerun, first, lastOp,
              zip, fn, incremental>>

\* sendMessageToBackground(message): chrome.runtime.sendMessage hands the
\* message to the listener, which starts the async function and returns true.
SendMessage ==
  /\ ext.pc \in {"idle", "responded"}
  /\ ext.popup # "pending"
  /\ ext.handled < MaxMessages
  /\ \E message \in Messages :
       ext' = [pc |-> "received", message |-> message, op |-> Unsettled,
               responses |-> <<>>, lastError |-> FALSE, popup |-> "pending",
               handled |-> ext.handled + 1]
  /\ ExtFrame

\* The async function up to its await: destructuring the message and the
\* switch on the action; what throws here is caught and thrown again.
Dispatch ==
  /\ ext.pc = "received"
  /\ LET message == ext.message
         Threw(m) == ext' = [ext EXCEPT !.pc = "settled",
                                        !.op = [state |-> "threw", message |-> m]]
     IN IF IsNull(message) THEN Threw("Cannot destructure property of null")
        ELSE IF ~Has(message, "action") THEN Threw("Unknown action: undefined")
        ELSE IF message.action = "processZipFile"
        THEN (IF Has(message, "data") THEN ext' = [ext EXCEPT !.pc = "running"]
              ELSE Threw("Cannot read properties of undefined"))
        ELSE IF message.action = "prepareMarkdownDownload"
        THEN ext' = [ext EXCEPT !.pc = "running"]
        ELSE Threw("Unknown action: deleteAll")
  /\ ExtFrame

\* The awaited operation settles: the function returns its result or the catch
\* block throws its error again.
OperationSettles ==
  /\ ext.pc = "running"
  /\ \E o \in OperationOutcomes(ext.message.action) :
       ext' = [ext EXCEPT !.pc = "settled", !.op = o]
  /\ ExtFrame

\* Mutant: the promise chain without its catch.
RespondThenOnly ==
  /\ ext.pc = "settled"
  /\ ext' = [ext EXCEPT
               !.pc = "responded",
               !.responses = IF ext.op.state = "returned"
                             THEN Append(@, ext.op.value) ELSE @]
  /\ ExtFrame

\* .then((response) => sendResponse(response))
\* .catch((error) => sendResponse({ error: error.message }))
Respond ==
  /\ ext.pc = "settled"
  /\ ext' = [ext EXCEPT
               !.pc = "responded",
               !.responses = IF ext.op.state = "returned"
                             THEN Append(@, ext.op.value)
                             ELSE Append(@, [error |-> ext.op.message])]
  /\ ExtFrame

\* The port closes before the listener has answered: chrome calls the popup's
\* callback with runtime.lastError set, and the promise is rejected.
PortClosed ==
  /\ ext.pc \in {"received", "running", "settled"}
  /\ ext.popup = "pending"
  /\ ext' = [ext EXCEPT !.lastError = TRUE, !.popup = "rejected"]
  /\ ExtFrame

\* The popup's callback on the listener's response: reject for a response with
\* a truthy error, else resolve.
Callback ==
  /\ ext.pc = "responded"
  /\ ext.popup = "pending"
  /\ LET response == ext.responses[1]
     IN ext' = [ext EXCEPT
                  !.popup = IF Has(response, "error") /\ response.error # ""
                            THEN "rejected" ELSE "resolved"]
  /\ ExtFrame

ListenerInit == NoPipeline /\ fn = NoCall

NextListener ==
  \/ LoadBackground
  \/ SendMessage
  \/ Dispatch
  \/ OperationSettles
  \/ Respond
  \/ PortClosed
  \/ Callback

SpecListener == ListenerInit /\ [][NextListener]_vars

\* C29: sendResponse is called at most once per message, and once the listener
\* has answered exactly once: with the operation's result when it returned, with
\* {error: message} when it threw or the action is unknown; the popup's promise
\* is rejected exactly when lastError is set or the response carries an error
\* (a non-empty one), and resolved otherwise.
C29_RespondsOnce ==
  ext.pc # "none" =>
    /\ Len(ext.responses) <= 1
    /\ ext.pc = "responded" =>
         /\ Len(ext.responses) = 1
         /\ ext.op.state \in {"returned", "threw"}
         /\ ext.op.state = "returned" => ext.responses[1] = ext.op.value
         /\ ext.op.state = "threw" =>
              ext.responses[1] = [error |-> ext.op.message]
         /\ (~IsNull(ext.message) /\ Has(ext.message, "action")
             /\ ext.message.action
                  \in {"processZipFile", "prepareMarkdownDownload"})
            \/ ext.op.state = "threw"
    /\ ext.popup = "rejected" =>
         \/ ext.lastError
         \/ /\ Len(ext.responses) = 1
            /\ Has(ext.responses[1], "error")
            /\ ext.responses[1].error # ""
    /\ ext.popup = "resolved" =>
         /\ ~ext.lastError
         /\ Len(ext.responses) = 1
         /\ ~(Has(ext.responses[1], "error") /\ ext.responses[1].error # "")

\* A message of an unknown action was answered with its error and the popup's
\* promise was rejected, without lastError.
C29_Witness ==
  /\ ext.pc = "responded"
  /\ ext.message = [action |-> "deleteAll"]
  /\ ext.responses = <<[error |-> "Unknown action: deleteAll"]>>
  /\ ext.popup = "rejected"
  /\ ~ext.lastError

\* ------------------------------------------------ the extension's database
\* SpecDexie: the background script opens the database at start-up and
\* processZipFile stores the entries of an archive, one storeConversation call
\* per entry, all in flight together. ext holds the module's db variable (the
\* number of the Dexie instance it names), the instances (opening or open), the
\* conversations table they all connect to, and the calls with their positions.

MaxEntries == 2

\* The uuids of an archive's JSON entries, in the order of zip.forEach.
EntryUuids == UNION {[1..n -> Uuids] : n \in 1..MaxEntries}

\* initDatabase() at the start of the background script: db = new Dexie(...),
\* then db.open() is awaited.
StartUp ==
  /\ ext = NoExt
  /\ ext' = [pc |-> "started", db |-> 1, instances |-> <<"opening">>,
             table |-> <<>>, calls |-> <<>>]
  /\ ExtFrame

\* db.open() of an instance completes.
OpenCompletes ==
  /\ ext.pc # "none"
  /\ \E i \in 1..Len(ext.instances) :
       /\ ext.instances[i] = "opening"
       /\ ext' = [ext EXCEPT !.instances[i] = "open"]
  /\ ExtFrame

\* A processZipFile message arrives: processJsonFile is started on every JSON
\* entry and each runs up to its await in storeConversation.
ProcessZipFile ==
  /\ ext.pc = "started"
  /\ \E uuids \in EntryUuids :
       ext' = [ext EXCEPT
                 !.pc = "processing",
                 !.calls = [k \in 1..Len(uuids) |->
                              [uuid |-> uuids[k], pc |-> "getDatabase",
                               own |-> 0, db |-> 0, existing |-> FALSE]]]
  /\ ExtFrame

\* getDatabase: with db open, db is returned; else initDatabase() puts a new
\* instance in db and awaits its open().
GetDatabase(k) ==
  /\ ext.pc = "processing"
  /\ ext.calls[k].pc = "getDatabase"
  /\ IF ext.instances[ext.db] = "open"
     THEN ext' = [ext EXCEPT !.calls[k].pc = "get", !.calls[k].db = ext.db]
     ELSE ext' = [ext EXCEPT
                    !.instances = Append(@, "opening"),
                    !.db = Len(ext.instances) + 1,
                    !.calls[k].own = Len(ext.instances) + 1,
                    !.calls[k].pc = "initDatabase"]
  /\ ExtFrame

\* The open() awaited by a call's initDatabase has completed: getDatabase
\* returns what db names now.
Opened(k) ==
  /\ ext.pc = "processing"
  /\ ext.calls[k].pc = "initDatabase"
  /\ ext.instances[ext.calls[k].own] = "open"
  /\ ext' = [ext EXCEPT !.calls[k].pc = "get", !.calls[k].db = ext.db]
  /\ ExtFrame

\* existing = await db.conversations.get(conversation.uuid); a request on an
\* instance that is still opening waits for it.
Get(k) ==
  /\ ext.pc = "processing"
  /\ ext.calls[k].pc = "get"
  /\ ext.instances[ext.calls[k].db] = "open"
  /\ ext' = [ext EXCEPT
               !.calls[k].pc = "write",
               !.calls[k].existing = Exists(ext.table, ext.calls[k].uuid)]
  /\ ExtFrame

\* update(uuid, {...}) when get found a record, else add({...}): add of a key
\* the table holds is rejected (ConstraintError) and the call fails with it.
AddOrUpdate(k) ==
  /\ ext.pc = "processing"
  /\ ext.calls[k].pc = "write"
  /\ LET record == [uuid |-> ext.calls[k].uuid, last_processed |-> k]
     IN IF ext.calls[k].existing
        THEN ext' = [ext EXCEPT !.calls[k].pc = "done",
                                !.table = UpdateMem(@, record.uuid, record)]
        ELSE IF Exists(ext.table, record.uuid)
        THEN ext' = [ext EXCEPT !.calls[k].pc = "failed"]
        ELSE ext' = [ext EXCEPT !.calls[k].pc = "done",
                                !.table = InsertMem(@, record)]
  /\ ExtFrame

NextDexie ==
  \/ StartUp
  \/ OpenCompletes
  \/ ProcessZipFile
  \/ \E k \in 1..MaxEntries :
       /\ ext.pc = "processing"
       /\ k <= Len(ext.calls)
       /\ (GetDatabase(k) \/ Opened(k) \/ Get(k) \/ AddOrUpdate(k))

SpecDexie == ListenerInit /\ [][NextDexie]_vars

\* C30: whatever the interleaving of the storeConversation calls, no call
\* fails, and when all have returned every uuid of the archive is in the table
\* exactly once.
C30_NoCallFails ==
  ext.pc = "processing" =>
    /\ \A k \in 1..Len(ext.calls) : ext.calls[k].pc # "failed"
    /\ (\A k \in 1..Len(ext.calls) : ext.calls[k].pc = "done") =>
         \A k \in 1..Len(ext.calls) :
           Cardinality({i \in 1..Len(ext.table) :
                          ext.table[i].uuid = ext.calls[k].uuid}) = 1

====
